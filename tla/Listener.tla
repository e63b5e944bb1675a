------------------------------ MODULE Listener ------------------------------
(***************************************************************************)
(* The host's listener: a task on the event loop that calibrates the       *)
(* microphone, waits for utterances and has them transcribed, reviewed and *)
(* answered, all in worker threads it awaits; the routes that start, stop  *)
(* and restart it and shut the host down; the spoken shutdown with its     *)
(* confirmation window; and the question "did you mean ...?" that waits    *)
(* for a spoken yes.                                                       *)
(*                                                                         *)
(* Several listeners may be about at once: the routes know only the newest *)
(* one.  A step is what happens between two awaits of a task, or between   *)
(* two points at which a thread touches shared state.  The end of a        *)
(* thread's call and the task's next step are one, taken when the task     *)
(* wakes up.                                                               *)
(***************************************************************************)
EXTENDS Naturals

CONSTANTS WindowTTL,    \* CONFIRM_WINDOW_SEC, in ticks
          ReviewTTL,    \* lifetime of a question, in ticks
          MaxTime,      \* bound on the clock
          MaxListeners  \* bound on how many listeners are started

ASSUME ListenerTimeAssumption ==
    /\ WindowTTL \in Nat \ {0} /\ ReviewTTL \in Nat \ {0} /\ MaxTime \in Nat
ASSUME ListenersAssumption == MaxListeners \in Nat \ {0}

VARIABLES now,         \* the clock
          confirm,     \* settings.voice_shutdown_confirm: never changes
          host,        \* the process, from serving requests to gone
          stopEvent,   \* app.state.stop_event
          current,     \* app.state.listener_task; 0 is None
          awaited,     \* the task /shutdown or the end of the lifespan awaits
          listener,    \* the tasks of run_listener, in the order of their start
          recording,   \* the two flags of the live state
          processing,
          question     \* _pending_listener_review

vars == <<now, confirm, host, stopEvent, current, awaited, listener, recording, processing,
          question>>

Listeners == 1 .. MaxListeners

\* What a transcript can be to the code: nothing, a word of yes or no, and
\* what does or does not ask for a shutdown or confirm one.
Texts == {"empty", "answer", "other", "shutdown", "confirm shutdown", "go ahead"}
intent_shutdown(text) == text \in {"shutdown", "confirm shutdown"}
intent_confirm(text) == text \in {"confirm shutdown", "go ahead"}

Places == {"none", "delay", "created", "calibrate", "stuck", "listen", "backoff",
           "process", "pause", "done"}

\* at: where run_listener awaits; thread: the worker thread it awaits; told:
\* the stop event was set while it waited for it; generator: the utterances
\* are not exhausted; text: the transcript being processed; window:
\* pending_shutdown_deadline, 0 is None.  As history: when it last heard
\* "shut down"; how many utterances it took up after it was told to stop;
\* whether no other listener ran while it did.
Listener == [at : Places, thread : {"idle", "calibrating", "reading", "processing", "answered"},
             told : BOOLEAN, generator : BOOLEAN, text : Texts, window : Nat,
             heard : SUBSET Nat, late : Nat, alone : BOOLEAN]

Idle == [at |-> "none", thread |-> "idle", told |-> FALSE, generator |-> FALSE,
         text |-> "empty", window |-> 0, heard |-> {}, late |-> 0, alone |-> TRUE]
Gone == [Idle EXCEPT !.at = "done"]

Running(i) == i \in Listeners /\ listener[i].at \notin {"none", "done"}

NoQuestion == [run |-> 0]
Question == [run : Listeners, expires : Nat]

TypeOK ==
    /\ now \in Nat /\ confirm \in BOOLEAN
    /\ host \in {"up", "stopping", "answered", "closing", "down"}
    /\ stopEvent \in BOOLEAN
    /\ current \in Listeners \cup {0} /\ awaited \in Listeners \cup {0}
    /\ listener \in [Listeners -> Listener]
    /\ recording \in BOOLEAN /\ processing \in BOOLEAN
    /\ question \in Question \cup {NoQuestion}

Init ==
    /\ now = 0 /\ confirm \in BOOLEAN
    /\ host = "up"
    /\ stopEvent = FALSE
    /\ current \in {0, 1} /\ awaited = 0
    /\ listener = [i \in Listeners |-> IF i = current THEN [Idle EXCEPT !.at = "delay"] ELSE Idle]
    /\ recording = FALSE /\ processing = FALSE
    /\ question = NoQuestion

-----------------------------------------------------------------------------
(* The stop event, and the end of a task *)

\* stop_event.set(): the delay ends, or _watch_stop_event stops the detector;
\* clearing the event does not undo that.
Told ==
    [i \in Listeners |->
        IF listener[i].at \in Places \ {"none", "created", "done"}
        THEN [listener[i] EXCEPT !.told = TRUE] ELSE listener[i]]

\* Mutations: a flag is forgotten; the question is.
FinishRecording(i) ==
    /\ listener' = [listener EXCEPT ![i] = Gone]
    /\ recording' = FALSE /\ UNCHANGED processing
    /\ question' = NoQuestion
FinishWithQuestion(i) ==
    /\ listener' = [listener EXCEPT ![i] = Gone]
    /\ recording' = FALSE /\ processing' = FALSE
    /\ UNCHANGED question

\* The finally clause; what run_listener keeps goes with it.
Finish(i) ==
    /\ listener' = [listener EXCEPT ![i] = Gone]
    /\ recording' = FALSE /\ processing' = FALSE
    /\ question' = NoQuestion

-----------------------------------------------------------------------------
(* The routes *)

Serving == host \in {"up", "stopping", "answered"}

\* asyncio.create_task(run_listener(...)), next to those that still run.
Create(i, listeners) ==
    /\ listener[i].at = "none" /\ \A j \in Listeners : j < i => listener[j].at # "none"
    /\ current' = i
    /\ listener' = [j \in Listeners |->
           IF j = i THEN [Idle EXCEPT !.at = "created", !.alone = \A k \in Listeners : ~Running(k)]
           ELSE IF Running(j) THEN [listeners[j] EXCEPT !.alone = FALSE]
           ELSE listeners[j]]

Start ==
    /\ Serving /\ ~Running(current)
    /\ stopEvent' = FALSE
    /\ \E i \in Listeners : Create(i, listener)
    /\ UNCHANGED <<now, confirm, host, awaited, recording, processing, question>>

Stop ==
    /\ Serving /\ Running(current)
    /\ stopEvent' = TRUE /\ listener' = Told
    /\ UNCHANGED <<now, confirm, host, current, awaited, recording, processing, question>>

\* select_device: the event is set and cleared at once, for asyncio.timeout is
\* no context manager of a plain "with" and raises.  A listener that does not
\* run is started as well, with the event as it is.
Select ==
    /\ Serving
    /\ \/ /\ Running(current)
          /\ stopEvent' = FALSE
          /\ \E i \in Listeners : Create(i, Told)
       \/ /\ ~Running(current)
          /\ \E i \in Listeners : Create(i, listener)
          /\ UNCHANGED stopEvent
    /\ UNCHANGED <<now, confirm, host, awaited, recording, processing, question>>

\* The handler awaits the listener for three seconds before it answers.
Shutdown ==
    /\ host = "up"
    /\ stopEvent' = TRUE /\ listener' = Told
    /\ awaited' = current
    /\ host' = "stopping"
    /\ UNCHANGED <<now, confirm, current, recording, processing, question>>

\* Mutation: a listener is given up only while it processes an utterance.
TimeoutOfProcessing ==
    /\ host = "stopping" /\ Running(awaited)
    /\ listener[awaited].at = "process"
    /\ listener' = [listener EXCEPT ![awaited] = [Gone EXCEPT !.thread =
           IF listener[awaited].thread = "processing" THEN "processing" ELSE "idle"]]
    /\ recording' = FALSE /\ processing' = FALSE /\ question' = NoQuestion
    /\ host' = "answered"
    /\ UNCHANGED <<now, confirm, stopEvent, current, awaited>>

\* Then it cancels the task, which ends, and answers; a thread of the task goes
\* on.  (By then the task has long been opened.)
ShutdownTimeout ==
    /\ host = "stopping" /\ Running(awaited)
    /\ listener[awaited].at \in Places \ {"delay", "created"}
    /\ listener' = [listener EXCEPT ![awaited] = [Gone EXCEPT !.thread =
           IF listener[awaited].thread = "processing" THEN "processing" ELSE "idle"]]
    /\ recording' = FALSE /\ processing' = FALSE /\ question' = NoQuestion
    /\ host' = "answered"
    /\ UNCHANGED <<now, confirm, stopEvent, current, awaited>>

ShutdownAnswers ==
    /\ host = "stopping" /\ ~Running(awaited)
    /\ host' = "answered"
    /\ UNCHANGED <<now, confirm, stopEvent, current, awaited, listener, recording, processing,
                   question>>

\* Mutation: the end of the lifespan does not stop the listener.
AwaitOnly ==
    /\ host' = "closing"
    /\ awaited' = current
    /\ UNCHANGED <<now, confirm, stopEvent, current, listener, recording, processing, question>>

\* The server leaves its loop, and the lifespan's finally clause stops the
\* listener and awaits it.
CloseLifespan ==
    /\ host' = "closing"
    /\ stopEvent' = TRUE /\ listener' = Told
    /\ awaited' = current
    /\ UNCHANGED <<now, confirm, current, recording, processing, question>>

SignalExit == host = "answered" /\ CloseLifespan
Interrupt == host = "up" /\ CloseLifespan

\* The process ends, with whatever else still runs.
Closed ==
    /\ host = "closing" /\ ~Running(awaited)
    /\ host' = "down"
    /\ listener' = [i \in Listeners |-> Gone]
    /\ recording' = FALSE /\ processing' = FALSE /\ question' = NoQuestion
    /\ UNCHANGED <<now, confirm, stopEvent, current, awaited>>

-----------------------------------------------------------------------------
(* A task starts *)

\* On boot it first waits a moment for a stop.
Delay(i) ==
    /\ listener[i].at = "delay"
    /\ listener' = [listener EXCEPT ![i] =
           IF @.told THEN Gone ELSE [@ EXCEPT !.at = "created"]]
    /\ UNCHANGED <<now, confirm, host, stopEvent, current, awaited, recording, processing,
                   question>>

\* The models and the microphone are opened, or raise.  (What raises before the
\* try block is taken to leave the flags as the finally clause does.)
Open(i) ==
    /\ listener[i].at = "created"
    /\ \/ /\ listener' = [listener EXCEPT ![i] = [@ EXCEPT
                 !.at = "calibrate", !.thread = "calibrating",
                 !.told = stopEvent, !.generator = TRUE]]
          /\ recording' = FALSE /\ processing' = FALSE
          /\ question' = NoQuestion
       \/ Finish(i)
    /\ UNCHANGED <<now, confirm, host, stopEvent, current, awaited>>

\* Mutation: neither the loop nor the generator looks whether to stop.
AgainAnyway(i) ==
    /\ listener' = [listener EXCEPT ![i] = [@ EXCEPT !.at = "listen", !.thread = "reading"]]
    /\ UNCHANGED <<recording, processing, question>>

\* while not stop_event.is_set(): the next utterance, of which a stopped
\* detector has none.
Again(i) ==
    \/ stopEvent /\ Finish(i)
    \/ /\ ~stopEvent
       /\ listener' = [listener EXCEPT ![i] = [@ EXCEPT
              !.at = "listen", !.thread = "reading", !.generator = listener[i].generator /\ ~listener[i].told]]
       /\ UNCHANGED <<recording, processing, question>>

\* Calibration ends, or the microphone raises.
Calibrated(i) ==
    /\ listener[i].at = "calibrate"
    /\ Again(i) \/ Finish(i)
    /\ UNCHANGED <<now, confirm, host, stopEvent, current, awaited>>

\* _read_frame raises StopIteration, which cannot be set on the future the
\* task awaits: the future stays pending.
CalibrationStopped(i) ==
    /\ listener[i].at = "calibrate" /\ listener[i].told
    /\ listener' = [listener EXCEPT ![i] = [@ EXCEPT !.at = "stuck", !.thread = "idle"]]
    /\ UNCHANGED <<now, confirm, host, stopEvent, current, awaited, recording, processing,
                   question>>

-----------------------------------------------------------------------------
(* A task listens *)

Reading(i) == listener[i].at = "listen" /\ listener[i].generator

\* The detector hears speech begin, or drops what was too short.  A frame that
\* was read before the stop still counts after it.
Speech(i) ==
    /\ Reading(i)
    /\ recording' \in BOOLEAN \ {recording}
    /\ UNCHANGED <<now, confirm, host, stopEvent, current, awaited, listener, processing, question>>

\* An utterance is complete; it, too, may be later than the stop.
Utterance(i) ==
    /\ Reading(i)
    /\ recording' = FALSE /\ processing' = TRUE
    /\ listener' = [listener EXCEPT ![i] = [@ EXCEPT
           !.at = "process", !.thread = "processing",
           !.late = listener[i].late + (IF listener[i].told THEN 1 ELSE 0)]]
    /\ UNCHANGED <<now, confirm, host, stopEvent, current, awaited, question>>

\* Mutation: the detector looks at the event, not at what it was told.
EndOfEvent(i) ==
    /\ listener[i].at = "listen"
    /\ stopEvent \/ ~listener[i].generator
    /\ Finish(i)
    /\ UNCHANGED <<now, confirm, host, stopEvent, current, awaited>>

\* A stopped or exhausted generator ends the listener.
UtterancesEnd(i) ==
    /\ listener[i].at = "listen"
    /\ listener[i].told \/ ~listener[i].generator
    /\ Finish(i)
    /\ UNCHANGED <<now, confirm, host, stopEvent, current, awaited>>

\* A frame raises: the microphone failed, or was stopped.  Either way the
\* generator is exhausted from now on.
ReadRaises(i) ==
    /\ Reading(i)
    /\ \/ stopEvent /\ Finish(i)
       \/ /\ ~stopEvent
          /\ listener' = [listener EXCEPT ![i] = [@ EXCEPT
                 !.at = "backoff", !.thread = "idle", !.generator = FALSE]]
          /\ UNCHANGED <<recording, processing, question>>
    /\ UNCHANGED <<now, confirm, host, stopEvent, current, awaited>>

Retry(i) ==
    /\ listener[i].at \in {"backoff", "pause"}
    /\ Again(i)
    /\ UNCHANGED <<now, confirm, host, stopEvent, current, awaited>>

-----------------------------------------------------------------------------
(* An utterance is processed *)

QuestionLive == question # NoQuestion /\ question.expires > now

\* Mutation: a question has no expiry.
AskForEver(i) == [run |-> i]

Ask(i) == [run |-> i, expires |-> now + ReviewTTL]

\* resolve_listener_voice_review.  A yes stands for the text asked about, which
\* may be any; what is accepted may be taken for any text as well; and what
\* is not to be acted upon has to be repeated or is asked about.
Review(i, text) ==
    \/ text = "empty" /\ UNCHANGED question
    \/ text # "empty" /\ question' = NoQuestion
    \/ text # "empty" /\ ~(text = "answer" /\ QuestionLive) /\ question' = Ask(i)

\* The thread has transcribed and reviewed the utterance, and answers it; so
\* does the thread of a cancelled task.
Transcribe(i) ==
    /\ listener[i].thread = "processing"
    /\ \E text \in Texts :
         /\ Review(i, text)
         /\ listener' = [listener EXCEPT ![i] =
                IF Running(i) THEN [@ EXCEPT !.thread = "answered", !.text = text] ELSE Gone]
    /\ UNCHANGED <<now, confirm, host, stopEvent, current, awaited, recording, processing>>

\* A model or the store raises, which ends the listener.
ProcessRaises(i) ==
    /\ listener[i].at = "process"
    /\ Finish(i)
    /\ UNCHANGED <<now, confirm, host, stopEvent, current, awaited>>

\* Mutation: the confirmation window never closes.
WindowEver(i) == listener[i].window # 0

WindowOpen(i) == listener[i].window # 0 /\ now <= listener[i].window

VoiceStop(i) ==
    /\ stopEvent' = TRUE
    /\ listener' = [Told EXCEPT ![i] = Gone]
    /\ recording' = FALSE /\ processing' = FALSE /\ question' = NoQuestion

\* The cycle ends with a snapshot, and a short wait for the stop event.
Report(i, window) ==
    /\ listener' = [listener EXCEPT ![i] = [@ EXCEPT
           !.at = "pause", !.thread = "idle", !.text = "empty", !.window = window,
           !.heard = IF intent_shutdown(listener[i].text) THEN {now} ELSE listener[i].heard]]
    /\ processing' = FALSE
    /\ UNCHANGED <<stopEvent, recording, question>>

Cycle(i) ==
    LET text == listener[i].text  window == listener[i].window IN
    /\ listener[i].thread = "answered"
    /\ \/ ~confirm /\ intent_shutdown(text) /\ VoiceStop(i)
       \/ ~confirm /\ ~intent_shutdown(text) /\ Report(i, window)
       \/ confirm /\ WindowOpen(i) /\ intent_confirm(text) /\ VoiceStop(i)
       \/ confirm /\ WindowOpen(i) /\ ~intent_confirm(text) /\ Report(i, window)
       \/ /\ confirm /\ ~WindowOpen(i)
          /\ Report(i, IF intent_shutdown(text) THEN now + WindowTTL ELSE 0)
    /\ UNCHANGED <<now, confirm, host, current, awaited>>

-----------------------------------------------------------------------------

Tick ==
    /\ now < MaxTime /\ host # "down"
    /\ now' = now + 1
    /\ UNCHANGED <<confirm, host, stopEvent, current, awaited, listener, recording, processing,
                   question>>

Process(i) == Transcribe(i) \/ ProcessRaises(i)

Next ==
    \/ Start \/ Stop \/ Select
    \/ Shutdown \/ ShutdownTimeout \/ ShutdownAnswers \/ SignalExit \/ Interrupt \/ Closed
    \/ \E i \in Listeners :
         \/ Delay(i) \/ Open(i) \/ Calibrated(i) \/ CalibrationStopped(i)
         \/ Speech(i) \/ Utterance(i) \/ UtterancesEnd(i) \/ ReadRaises(i) \/ Retry(i)
         \/ Process(i) \/ Cycle(i)
    \/ Tick

Spec == Init /\ [][Next]_vars

\* The event loop runs what is ready and its timers fire; calibration reads a
\* fixed number of frames; a stopped microphone stops blocking its reader; the
\* models answer or raise.
FairSpec ==
    /\ Spec
    /\ WF_vars(ShutdownTimeout) /\ WF_vars(ShutdownAnswers)
    /\ WF_vars(SignalExit) /\ WF_vars(Closed)
    /\ \A i \in Listeners :
         /\ WF_vars(Delay(i) \/ Open(i)) /\ WF_vars(Calibrated(i) \/ CalibrationStopped(i))
         /\ WF_vars(UtterancesEnd(i)) /\ WF_vars(Retry(i))
         /\ WF_vars(Process(i)) /\ WF_vars(Cycle(i))

-----------------------------------------------------------------------------
(* Properties *)

\* What clients see is what a listener does, whichever exception, stop or
\* cancellation ended it: the flags claim nothing that no listener does (after
\* a read that failed the recording flag stays up until the listener ends), and
\* the work of a listener that has the host for itself is shown.
StatusHonest ==
    /\ recording => \E i \in Listeners : listener[i].at \in {"listen", "backoff"}
    /\ processing => \E i \in Listeners : listener[i].at = "process"
    /\ \A i \in Listeners : listener[i].at = "process" /\ listener[i].alone => processing

\* A question waits only while the listener that asked it runs: a later one
\* never takes a yes for an answer to it.  (Once a shutdown has cancelled the
\* task, the thread it left behind may still ask.)
QuestionOfThisRun ==
    host \in {"up", "stopping"} /\ question # NoQuestion => Running(question.run)

\* A listener that was told to stop takes up at most one more utterance.
OneMoreAtMost == \A i \in Listeners : listener[i].late <= 1

\* With confirmation on, a voice stops a listener only if the same listener
\* heard a shutdown before, no longer ago than the confirmation window.
ConfirmedInTime(i) ==
    /\ confirm /\ listener[i].thread = "answered"
    /\ ~stopEvent /\ stopEvent' /\ listener'[i].at = "done"
    => /\ intent_confirm(listener[i].text)
       /\ \E t \in listener[i].heard : now <= t + WindowTTL

VoiceStopConfirmed == [][\A i \in Listeners : ConfirmedInTime(i)]_vars

\* A listener past its calibration ends once it is told to stop, even if the
\* event is cleared again at once.
Listening(i) == i \in Listeners /\ listener[i].at \in {"listen", "backoff", "process", "pause"}
StopEnds == \A i \in Listeners : listener[i].told /\ Listening(i) ~> ~Running(i)

\* /shutdown is answered, whatever state the listener is in.
ShutdownAnswered == host = "stopping" ~> host # "stopping"

\* The process ends once it is told to, unless the listener it waits for was
\* not past its calibration yet.
HostCloses == host = "closing" /\ (Listening(awaited) \/ ~Running(awaited)) ~> host = "down"

-----------------------------------------------------------------------------
(* Why the safety properties hold *)

\* Past its calibration.
Opened == {"listen", "backoff", "process", "pause"}

\* A thread answers only for a task that waits for it, but for the one that a
\* shutdown gave up; a task that took up an utterance too many takes up no
\* other; a window is open for as long as a shutdown was heard.
OnTrack(r, h, n) ==
    /\ r.thread = "answered" => r.at = "process"
    /\ r.thread = "processing" =>
          r.at = "process" \/ (r.at = "done" /\ h \notin {"up", "stopping"})
    /\ r.late <= 1
    /\ r.late = 1 => r.told /\ (r.at \in {"process", "pause"} \/ ~r.generator)
    /\ r.at \notin Opened => r.late = 0
    /\ r.window # 0 =>
          r.window <= n + WindowTTL /\ \E t \in r.heard : r.window <= t + WindowTTL

\* No two listeners run if one of them has had the host for itself.
AloneRuns ==
    \A i, j \in Listeners : listener[i].alone /\ Running(i) /\ Running(j) => i = j

\* The listener that asked is past its calibration.
AskerRuns ==
    host \in {"up", "stopping"} /\ question # NoQuestion => listener[question.run].at \in Opened

ListenerInv ==
    /\ TypeOK /\ StatusHonest /\ AloneRuns /\ AskerRuns
    /\ \A i \in Listeners : OnTrack(listener[i], host, now)
=============================================================================
