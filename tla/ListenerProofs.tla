---------------------------- MODULE ListenerProofs ----------------------------
(***************************************************************************)
(* Proofs about Listener: its type invariant, that the status shown to     *)
(* clients is honest, that a question ends with the listener that asked    *)
(* it, that a stop lets at most one more utterance through, and that a     *)
(* voice stops the host only after a shutdown that was heard in time.      *)
(***************************************************************************)
EXTENDS Listener, TLAPS

USE ListenerTimeAssumption, ListenersAssumption

-----------------------------------------------------------------------------
(* One listener's record *)

\* A task that has ended.
LEMMA GoneType ==
    /\ Idle \in Listener /\ Gone \in Listener
    /\ Gone.at = "done" /\ Gone.thread = "idle" /\ Gone.late = 0 /\ Gone.window = 0
    /\ Idle.at = "none" /\ Idle.thread = "idle" /\ Idle.late = 0 /\ Idle.window = 0 /\ Idle.alone
<1>1. Idle \in Listener
  BY DEF Idle, Listener, Places, Texts
<1>2. Gone \in Listener /\ Gone.at = "done" /\ Gone.thread = Idle.thread /\ Gone.late = Idle.late
      /\ Gone.window = Idle.window
  BY <1>1 DEF Gone, Listener, Places
<1>3. /\ Idle.at = "none" /\ Idle.thread = "idle" /\ Idle.late = 0 /\ Idle.window = 0 /\ Idle.alone
  BY DEF Idle
<1> QED
  BY <1>1, <1>2, <1>3

LEMMA GoneOnTrack ==
    ASSUME NEW h, NEW n
    PROVE  OnTrack(Gone, h, n)
BY GoneType DEF OnTrack

\* The host only goes on, and so does the clock.
LEMMA TrackGoesOn ==
    ASSUME NEW r \in Listener, NEW h, NEW n \in Nat, OnTrack(r, h, n),
           NEW k, NEW m \in Nat, n <= m, k \in {"up", "stopping"} => h \in {"up", "stopping"}
    PROVE  OnTrack(r, k, m)
<1>1. r.window \in Nat
  BY DEF Listener
<1>2. r.window <= n + WindowTTL => r.window <= m + WindowTTL
  BY <1>1
<1> QED
  BY <1>2 DEF OnTrack

\* A task that is told to stop is where it was.
LEMMA ToldType ==
    ASSUME ListenerInv
    PROVE  /\ Told \in [Listeners -> Listener]
           /\ \A i \in Listeners :
                 /\ Told[i].at = listener[i].at /\ Told[i].alone = listener[i].alone
                 /\ Told[i].thread = listener[i].thread
                 /\ OnTrack(Told[i], host, now)
<1> SUFFICES ASSUME NEW i \in Listeners
             PROVE  /\ Told[i] \in Listener
                    /\ Told[i].at = listener[i].at /\ Told[i].alone = listener[i].alone
                    /\ Told[i].thread = listener[i].thread
                    /\ OnTrack(Told[i], host, now)
  BY DEF Told
<1> DEFINE r == listener[i]
           t == [r EXCEPT !.told = TRUE]
<1>1. r \in Listener /\ OnTrack(r, host, now)
  BY DEF ListenerInv, TypeOK
<1>2. Told[i] = t \/ Told[i] = r
  BY DEF Told
<1> HIDE DEF r
<1>3. /\ t \in Listener /\ t.at = r.at /\ t.alone = r.alone /\ t.thread = r.thread
      /\ t.told = TRUE /\ t.generator = r.generator /\ t.late = r.late /\ t.window = r.window
      /\ t.heard = r.heard
  BY <1>1 DEF Listener
<1>4. OnTrack(t, host, now)
  BY <1>1, <1>3 DEF OnTrack
<1> HIDE DEF t
<1> QED
  BY <1>1, <1>2, <1>3, <1>4 DEF r

-----------------------------------------------------------------------------
(* What a step owes the others *)

\* One task moves on, the others stay where they are: base is what they are,
\* but that they may have been told to stop.
LEMMA OneMoves ==
    ASSUME ListenerInv, NEW i \in Listeners, NEW r \in Listener,
           NEW base \in [Listeners -> Listener],
           \A j \in Listeners : /\ base[j].at = listener[j].at /\ base[j].alone = listener[j].alone
                                /\ OnTrack(base[j], host, now),
           listener' = [base EXCEPT ![i] = r],
           OnTrack(r, host', now),
           r.at \notin {"none", "done"} => Running(i) /\ r.alone = listener[i].alone,
           now' = now,
           host' \in {"up", "stopping", "answered", "closing", "down"},
           host' \in {"up", "stopping"} => host \in {"up", "stopping"},
           UNCHANGED <<confirm, current, awaited>>, stopEvent' \in BOOLEAN,
           recording' \in BOOLEAN, processing' \in BOOLEAN,
           recording' => \/ r.at \in {"listen", "backoff"}
                         \/ recording /\ listener[i].at \notin {"listen", "backoff"},
           processing' => \/ r.at = "process"
                          \/ processing /\ listener[i].at # "process",
           processing /\ ~processing' => Running(i),
           r.at = "process" /\ r.alone => processing',
           \/ question' = NoQuestion
           \/ question' = question /\ (listener[i].at \in Opened => r.at \in Opened)
           \/ question' \in Question /\ (host' \in {"up", "stopping"} =>
                                            question'.run = i /\ r.at \in Opened)
    PROVE  ListenerInv'
<1>1. TypeOK'
  BY DEF ListenerInv, TypeOK
<1>2. \A j \in Listeners : j # i => listener'[j] = base[j]
  OBVIOUS
<1>3. listener'[i] = r
  OBVIOUS
<1>4. \A j \in Listeners : OnTrack(listener'[j], host', now')
  <2> SUFFICES ASSUME NEW j \in Listeners PROVE OnTrack(listener'[j], host', now')
    OBVIOUS
  <2>1. CASE j = i
    BY <1>3, <2>1
  <2>2. CASE j # i
    <3>1. now \in Nat /\ now <= now' /\ now' \in Nat
      BY DEF ListenerInv, TypeOK
    <3>2. OnTrack(base[j], host', now')
      BY <3>1, TrackGoesOn
    <3> QED
      BY <1>2, <2>2, <3>2
  <2> QED
    BY <2>1, <2>2
<1>5. \A j \in Listeners : j # i => listener'[j].at = listener[j].at
                                    /\ listener'[j].alone = listener[j].alone
  BY <1>2
<1>6. AloneRuns'
  BY <1>3, <1>5 DEF ListenerInv, AloneRuns, Running
<1>7. StatusHonest'
  <2>1. recording' => \E j \in Listeners : listener'[j].at \in {"listen", "backoff"}
    BY <1>3, <1>5 DEF ListenerInv, StatusHonest
  <2>2. processing' => \E j \in Listeners : listener'[j].at = "process"
    BY <1>3, <1>5 DEF ListenerInv, StatusHonest
  <2>3. ASSUME NEW j \in Listeners, listener'[j].at = "process", listener'[j].alone
        PROVE  processing'
    <3>1. CASE j = i
      BY <1>3, <2>3, <3>1
    <3>2. CASE j # i
      <4>1. listener[j].at = "process" /\ listener[j].alone /\ processing /\ Running(j)
        BY <1>5, <2>3, <3>2 DEF ListenerInv, StatusHonest, Running
      <4>2. ~Running(i)
        BY <3>2, <4>1 DEF ListenerInv, AloneRuns
      <4> QED
        BY <4>1, <4>2
    <3> QED
      BY <3>1, <3>2
  <2> QED
    BY <2>1, <2>2, <2>3 DEF StatusHonest
<1>8. AskerRuns'
  <2> SUFFICES ASSUME host' \in {"up", "stopping"}, question' # NoQuestion
               PROVE  listener'[question'.run].at \in Opened
    BY DEF AskerRuns
  <2>1. CASE question' = question /\ (listener[i].at \in Opened => r.at \in Opened)
    <3>1. listener[question.run].at \in Opened /\ question.run \in Listeners
      BY <2>1 DEF ListenerInv, AskerRuns, TypeOK, Question
    <3> QED
      BY <1>3, <1>5, <2>1, <3>1
  <2>2. CASE question'.run = i /\ r.at \in Opened
    BY <1>3, <2>2
  <2> QED
    BY <2>1, <2>2
<1> QED
  BY <1>1, <1>4, <1>6, <1>7, <1>8 DEF ListenerInv

\* No task moves, but all may be told to stop.
LEMMA NoneMoves ==
    ASSUME ListenerInv,
           listener' \in [Listeners -> Listener],
           \A j \in Listeners : /\ listener'[j].at = listener[j].at
                                /\ listener'[j].alone = listener[j].alone
                                /\ OnTrack(listener'[j], host, now),
           now' \in Nat, now <= now',
           host' \in {"up", "stopping", "answered", "closing", "down"},
           host' \in {"up", "stopping"} => host \in {"up", "stopping"},
           UNCHANGED <<confirm, recording, processing, question>>, stopEvent' \in BOOLEAN,
           current' \in Listeners \cup {0}, awaited' \in Listeners \cup {0}
    PROVE  ListenerInv'
<1>1. TypeOK'
  BY DEF ListenerInv, TypeOK
<1>2. \A j \in Listeners : OnTrack(listener'[j], host', now')
  BY TrackGoesOn DEF ListenerInv, TypeOK
<1>3. AloneRuns' /\ StatusHonest'
  BY DEF ListenerInv, AloneRuns, StatusHonest, Running
<1>4. AskerRuns'
  <2> SUFFICES ASSUME host' \in {"up", "stopping"}, question # NoQuestion
               PROVE  listener'[question.run].at \in Opened
    BY DEF AskerRuns
  <2>1. question.run \in Listeners /\ listener[question.run].at \in Opened
    BY DEF ListenerInv, AskerRuns, TypeOK, Question
  <2> QED
    BY <2>1
<1> QED
  BY <1>1, <1>2, <1>3, <1>4 DEF ListenerInv

\* A task that ends forgets its question and takes its flags down.
LEMMA FinishKeepsInv ==
    ASSUME ListenerInv, NEW i \in Listeners, Running(i), Finish(i),
           UNCHANGED <<now, confirm, host, stopEvent, current, awaited>>
    PROVE  ListenerInv'
<1>1. /\ listener \in [Listeners -> Listener] /\ stopEvent \in BOOLEAN
      /\ \A j \in Listeners : OnTrack(listener[j], host, now)
      /\ host \in {"up", "stopping", "answered", "closing", "down"}
  BY DEF ListenerInv, TypeOK
<1>2. /\ listener' = [listener EXCEPT ![i] = Gone] /\ recording' = FALSE /\ processing' = FALSE
      /\ question' = NoQuestion
  BY DEF Finish
<1>3. OnTrack(Gone, host', now)
  BY GoneOnTrack
<1> QED
  BY <1>1, <1>2, <1>3, GoneType, OneMoves

\* Nothing but a task's record changes.
LEMMA MoveKeepsInv ==
    ASSUME ListenerInv, NEW i \in Listeners, Running(i), NEW r \in Listener,
           listener' = [listener EXCEPT ![i] = r], OnTrack(r, host, now),
           r.alone = listener[i].alone,
           listener[i].at \in Opened => r.at \in Opened,
           listener[i].at \in {"listen", "backoff"} => r.at \in {"listen", "backoff"},
           listener[i].at # "process" /\ r.at # "process",
           UNCHANGED <<now, confirm, host, stopEvent, current, awaited, recording, processing,
                       question>>
    PROVE  ListenerInv'
<1>1. /\ listener \in [Listeners -> Listener] /\ stopEvent \in BOOLEAN
      /\ \A j \in Listeners : OnTrack(listener[j], host, now)
      /\ host \in {"up", "stopping", "answered", "closing", "down"}
      /\ recording \in BOOLEAN /\ processing \in BOOLEAN
  BY DEF ListenerInv, TypeOK
<1> QED
  BY <1>1, OneMoves


-----------------------------------------------------------------------------
(* The routes *)

\* A listener that is created runs next to those that run already, none of
\* which has the host for itself any more.
LEMMA CreateKeepsInv ==
    ASSUME ListenerInv, NEW i \in Listeners, NEW base \in [Listeners -> Listener],
           \A j \in Listeners : /\ base[j].at = listener[j].at /\ base[j].alone = listener[j].alone
                                /\ OnTrack(base[j], host, now),
           Create(i, base), stopEvent' \in BOOLEAN,
           UNCHANGED <<now, confirm, host, awaited, recording, processing, question>>
    PROVE  ListenerInv'
<1> DEFINE alone == \A k \in Listeners : ~Running(k)
           new == [Idle EXCEPT !.at = "created", !.alone = alone]
           lone(j) == [base[j] EXCEPT !.alone = FALSE]
<1>1. /\ listener[i].at = "none" /\ current' = i
      /\ listener' = [j \in Listeners |->
             IF j = i THEN new ELSE IF Running(j) THEN lone(j) ELSE base[j]]
  BY DEF Create
<1>2. /\ new \in Listener /\ new.at = "created" /\ new.alone = alone /\ OnTrack(new, host, now)
  <2>1. alone \in BOOLEAN
    OBVIOUS
  <2> HIDE DEF alone
  <2>2. /\ new \in Listener /\ new.at = "created" /\ new.alone = alone /\ new.thread = Idle.thread
        /\ new.late = Idle.late /\ new.window = Idle.window
    BY <2>1, GoneType DEF Listener, Places
  <2> HIDE DEF new
  <2> QED
    BY <2>2, GoneType DEF OnTrack, Opened
<1>3. ASSUME NEW j \in Listeners
      PROVE  lone(j) \in Listener /\ lone(j).at = listener[j].at /\ lone(j).alone = FALSE
             /\ OnTrack(lone(j), host, now)
  <2> DEFINE r == base[j]
             s == [r EXCEPT !.alone = FALSE]
  <2>1. r \in Listener /\ OnTrack(r, host, now) /\ r.at = listener[j].at
    OBVIOUS
  <2> HIDE DEF r
  <2>2. /\ s \in Listener /\ s.at = r.at /\ s.alone = FALSE /\ s.thread = r.thread
        /\ s.told = r.told /\ s.generator = r.generator /\ s.late = r.late
        /\ s.window = r.window /\ s.heard = r.heard
    BY <2>1 DEF Listener
  <2>3. OnTrack(s, host, now)
    BY <2>1, <2>2 DEF OnTrack
  <2>4. s = lone(j)
    BY DEF r
  <2> QED
    BY <2>1, <2>2, <2>3, <2>4
<1>4. /\ \A j \in Listeners \ {i} : Running(j) => listener'[j] = lone(j)
      /\ \A j \in Listeners \ {i} : ~Running(j) => listener'[j] = base[j]
      /\ listener'[i] = new
  BY <1>1
<1> HIDE DEF new, lone
<1>5. \A j \in Listeners : listener'[j] \in Listener /\ OnTrack(listener'[j], host, now)
  BY <1>2, <1>3, <1>4
<1>6. TypeOK'
  BY <1>1, <1>5 DEF ListenerInv, TypeOK
<1>7. /\ \A j \in Listeners \ {i} : listener'[j].at = listener[j].at
      /\ \A j \in Listeners \ {i} : Running(j) => ~listener'[j].alone
  BY <1>3, <1>4
<1>8. AloneRuns'
  <2> SUFFICES ASSUME NEW j \in Listeners, NEW k \in Listeners,
                      listener'[j].alone, Running(j)', Running(k)'
               PROVE  j = k
    BY DEF AloneRuns
  <2>1. j = i
    BY <1>7 DEF Running
  <2>2. alone
    BY <1>2, <1>4, <2>1
  <2>3. k = i
    BY <1>7, <2>2 DEF Running
  <2> QED
    BY <2>1, <2>3
<1>9. StatusHonest'
  BY <1>1, <1>2, <1>4, <1>7 DEF ListenerInv, StatusHonest, Running
<1>10. AskerRuns'
  <2> SUFFICES ASSUME host \in {"up", "stopping"}, question # NoQuestion
               PROVE  listener'[question.run].at \in Opened
    BY DEF AskerRuns
  <2>1. question.run \in Listeners /\ listener[question.run].at \in Opened
    BY DEF ListenerInv, AskerRuns, TypeOK, Question
  <2> QED
    BY <1>1, <1>7, <2>1 DEF Opened
<1> QED
  BY <1>5, <1>6, <1>8, <1>9, <1>10 DEF ListenerInv

LEMMA RoutesKeepInv ==
    ASSUME ListenerInv, Start \/ Stop \/ Select \/ Shutdown \/ ShutdownAnswers \/ SignalExit \/ Interrupt
    PROVE  ListenerInv'
<1>1. /\ listener \in [Listeners -> Listener] /\ stopEvent \in BOOLEAN /\ now \in Nat
      /\ \A j \in Listeners : OnTrack(listener[j], host, now)
      /\ host \in {"up", "stopping", "answered", "closing", "down"}
      /\ current \in Listeners \cup {0} /\ awaited \in Listeners \cup {0}
  BY DEF ListenerInv, TypeOK
<1>2. CASE Start
  BY <1>1, <1>2, CreateKeepsInv DEF Start
<1>3. CASE Stop
  BY <1>1, <1>3, ToldType, NoneMoves DEF Stop
<1>4. CASE Select
  <2>1. CASE Running(current)
    <3>1. PICK i \in Listeners : Create(i, Told)
      BY <1>4, <2>1 DEF Select
    <3>2. stopEvent' = FALSE
      BY <1>4, <2>1 DEF Select
    <3> QED
      BY <1>4, <3>1, <3>2, ToldType, CreateKeepsInv DEF Select
  <2>2. CASE ~Running(current)
    BY <1>1, <1>4, <2>2, CreateKeepsInv DEF Select
  <2> QED
    BY <2>1, <2>2
<1>5. CASE Shutdown
  BY <1>1, <1>5, ToldType, NoneMoves DEF Shutdown
<1>6. CASE ShutdownAnswers
  BY <1>1, <1>6, NoneMoves DEF ShutdownAnswers
<1>7. CASE SignalExit \/ Interrupt
  <2>1. /\ host' = "closing" /\ stopEvent' = TRUE /\ listener' = Told /\ awaited' = current
        /\ UNCHANGED <<now, confirm, current, recording, processing, question>>
    BY <1>7 DEF SignalExit, Interrupt, CloseLifespan
  <2> QED
    BY <1>1, <2>1, ToldType, NoneMoves
<1> QED
  BY <1>2, <1>3, <1>4, <1>5, <1>6, <1>7

\* A task that is given up is gone, but its thread may go on.
LEMMA TimeoutKeepsInv ==
    ASSUME ListenerInv, ShutdownTimeout
    PROVE  ListenerInv'
<1> DEFINE thread == IF listener[awaited].thread = "processing" THEN "processing" ELSE "idle"
           r == [Gone EXCEPT !.thread = thread]
<1>1. /\ listener \in [Listeners -> Listener] /\ stopEvent \in BOOLEAN
      /\ \A j \in Listeners : OnTrack(listener[j], host, now)
  BY DEF ListenerInv, TypeOK
<1>2. /\ awaited \in Listeners /\ Running(awaited) /\ listener' = [listener EXCEPT ![awaited] = r]
      /\ recording' = FALSE /\ processing' = FALSE /\ question' = NoQuestion
      /\ host' = "answered"
      /\ UNCHANGED <<now, confirm, stopEvent, current, awaited>>
  BY DEF ShutdownTimeout, Running
<1>3. thread \in {"processing", "idle"}
  OBVIOUS
<1> HIDE DEF thread
<1>4. /\ r \in Listener /\ r.at = "done" /\ r.thread = thread /\ r.late = 0 /\ r.window = 0
  BY <1>3, GoneType DEF Listener
<1> HIDE DEF r
<1>5. OnTrack(r, host', now)
  BY <1>2, <1>3, <1>4 DEF OnTrack, Opened
<1> QED
  BY <1>1, <1>2, <1>4, <1>5, OneMoves

LEMMA ClosedKeepsInv ==
    ASSUME ListenerInv, Closed
    PROVE  ListenerInv'
<1>1. /\ \A i \in Listeners : listener'[i] = Gone
      /\ recording' = FALSE /\ processing' = FALSE /\ question' = NoQuestion /\ host' = "down"
  BY DEF Closed
<1>2. TypeOK'
  BY GoneType DEF Closed, ListenerInv, TypeOK
<1>3. StatusHonest' /\ AloneRuns' /\ AskerRuns'
  BY <1>1, GoneType DEF StatusHonest, AloneRuns, AskerRuns, Running
<1>4. \A i \in Listeners : OnTrack(listener'[i], host', now')
  BY <1>1, GoneOnTrack
<1> QED
  BY <1>2, <1>3, <1>4 DEF ListenerInv


-----------------------------------------------------------------------------
(* The tasks *)

\* What every step of a task may count on.
LEMMA TaskFacts ==
    ASSUME ListenerInv, NEW i \in Listeners
    PROVE  /\ listener \in [Listeners -> Listener] /\ listener[i] \in Listener
           /\ stopEvent \in BOOLEAN /\ now \in Nat /\ confirm \in BOOLEAN
           /\ \A j \in Listeners : OnTrack(listener[j], host, now)
           /\ host \in {"up", "stopping", "answered", "closing", "down"}
           /\ recording \in BOOLEAN /\ processing \in BOOLEAN
           /\ question \in Question \cup {NoQuestion}
BY DEF ListenerInv, TypeOK

LEMMA DelayKeepsInv ==
    ASSUME ListenerInv, NEW i \in Listeners, Delay(i)
    PROVE  ListenerInv'
<1> DEFINE l == listener[i]
           r == [l EXCEPT !.at = "created"]
<1>1. /\ l \in Listener /\ OnTrack(l, host, now) /\ l.at = "delay" /\ Running(i)
  BY TaskFacts DEF Delay, Running
<1>2. /\ \/ listener' = [listener EXCEPT ![i] = Gone]
         \/ listener' = [listener EXCEPT ![i] = r]
      /\ UNCHANGED <<now, confirm, host, stopEvent, current, awaited, recording, processing,
                     question>>
  BY TaskFacts DEF Delay
<1>3. CASE listener' = [listener EXCEPT ![i] = r]
  <2> HIDE DEF l
  <2>1. /\ r \in Listener /\ r.at = "created" /\ r.alone = l.alone /\ r.thread = l.thread
        /\ r.told = l.told /\ r.generator = l.generator /\ r.late = l.late
        /\ r.window = l.window /\ r.heard = l.heard
    BY <1>1 DEF Listener, Places
  <2> HIDE DEF r
  <2>2. OnTrack(r, host, now)
    BY <1>1, <2>1 DEF OnTrack, Opened
  <2> QED
    BY <1>1, <1>2, <1>3, <2>1, <2>2, MoveKeepsInv DEF l, Opened
<1>4. CASE listener' = [listener EXCEPT ![i] = Gone]
  <2>1. OnTrack(Gone, host', now)
    BY GoneOnTrack
  <2> HIDE DEF r
  <2> QED
    BY <1>1, <1>2, <1>4, <2>1, TaskFacts, GoneType, OneMoves DEF Opened
<1> QED
  BY <1>2, <1>3, <1>4

LEMMA OpenKeepsInv ==
    ASSUME ListenerInv, NEW i \in Listeners, Open(i)
    PROVE  ListenerInv'
<1> DEFINE l == listener[i]
           r == [l EXCEPT !.at = "calibrate", !.thread = "calibrating",
                          !.told = stopEvent, !.generator = TRUE]
<1>1. /\ l \in Listener /\ OnTrack(l, host, now) /\ l.at = "created" /\ Running(i)
      /\ UNCHANGED <<now, confirm, host, stopEvent, current, awaited>>
  BY TaskFacts DEF Open, Running
<1>2. CASE Finish(i)
  BY <1>1, <1>2, FinishKeepsInv
<1>3. CASE /\ listener' = [listener EXCEPT ![i] = r]
           /\ recording' = FALSE /\ processing' = FALSE /\ question' = NoQuestion
  <2> HIDE DEF l
  <2>1. /\ r \in Listener /\ r.at = "calibrate" /\ r.alone = l.alone /\ r.thread = "calibrating"
        /\ r.late = l.late /\ r.window = l.window /\ r.heard = l.heard
    BY <1>1, TaskFacts DEF Listener, Places
  <2> HIDE DEF r
  <2>2. OnTrack(r, host, now)
    BY <1>1, <2>1 DEF OnTrack, Opened
  <2> QED
    BY <1>1, <1>3, <2>1, <2>2, TaskFacts, OneMoves DEF l
<1> QED
  BY <1>2, <1>3 DEF Open

\* A task comes to its loop again, or to its end.
LEMMA AgainKeepsInv ==
    ASSUME ListenerInv, NEW i \in Listeners, Again(i),
           listener[i].at \in {"calibrate", "backoff", "pause"},
           UNCHANGED <<now, confirm, host, stopEvent, current, awaited>>
    PROVE  ListenerInv'
<1> DEFINE l == listener[i]
           g == l.generator /\ ~l.told
           r == [l EXCEPT !.at = "listen", !.thread = "reading", !.generator = g]
<1>1. /\ l \in Listener /\ OnTrack(l, host, now) /\ Running(i)
      /\ l.at \in {"calibrate", "backoff", "pause"}
  BY TaskFacts DEF Running
<1>2. CASE Finish(i)
  BY <1>1, <1>2, FinishKeepsInv
<1>3. CASE /\ listener' = [listener EXCEPT ![i] = r]
           /\ UNCHANGED <<recording, processing, question>>
  <2>1. g \in BOOLEAN
    OBVIOUS
  <2>2. g => ~l.told
    OBVIOUS
  <2> HIDE DEF l, g
  <2>3. /\ r \in Listener /\ r.at = "listen" /\ r.alone = l.alone /\ r.thread = "reading"
        /\ r.told = l.told /\ r.generator = g
        /\ r.late = l.late /\ r.window = l.window /\ r.heard = l.heard
    BY <1>1, <2>1 DEF Listener, Places
  <2> HIDE DEF r
  <2>4. OnTrack(r, host, now)
    BY <1>1, <2>2, <2>3 DEF OnTrack, Opened
  <2> QED
    BY <1>1, <1>3, <2>3, <2>4, MoveKeepsInv DEF l, Opened
<1> QED
  BY <1>2, <1>3 DEF Again

LEMMA StoppedKeepsInv ==
    ASSUME ListenerInv, NEW i \in Listeners, CalibrationStopped(i)
    PROVE  ListenerInv'
<1> DEFINE l == listener[i]
           r == [l EXCEPT !.at = "stuck", !.thread = "idle"]
<1>1. /\ l \in Listener /\ OnTrack(l, host, now) /\ Running(i) /\ l.at = "calibrate"
      /\ listener' = [listener EXCEPT ![i] = r]
      /\ UNCHANGED <<now, confirm, host, stopEvent, current, awaited, recording, processing,
                     question>>
  BY TaskFacts DEF CalibrationStopped, Running
<1> HIDE DEF l
<1>2. /\ r \in Listener /\ r.at = "stuck" /\ r.alone = l.alone /\ r.thread = "idle"
      /\ r.late = l.late /\ r.window = l.window /\ r.heard = l.heard
  BY <1>1 DEF Listener, Places
<1> HIDE DEF r
<1>3. OnTrack(r, host, now)
  BY <1>1, <1>2 DEF OnTrack, Opened
<1> QED
  BY <1>1, <1>2, <1>3, MoveKeepsInv DEF l, Opened

LEMMA SpeechKeepsInv ==
    ASSUME ListenerInv, NEW i \in Listeners, Speech(i)
    PROVE  ListenerInv'
<1>1. /\ Running(i) /\ listener[i].at = "listen" /\ recording' \in BOOLEAN
      /\ UNCHANGED <<now, confirm, host, stopEvent, current, awaited, listener, processing, question>>
  BY DEF Speech, Reading, Running
<1>2. /\ TypeOK' /\ AloneRuns' /\ AskerRuns'
  BY <1>1 DEF ListenerInv, TypeOK, AloneRuns, AskerRuns, Running
<1>3. StatusHonest'
  BY <1>1 DEF ListenerInv, StatusHonest
<1>4. \A j \in Listeners : OnTrack(listener'[j], host', now')
  BY <1>1 DEF ListenerInv
<1> QED
  BY <1>2, <1>3, <1>4 DEF ListenerInv

\* A told listener that takes up an utterance has taken up none before: its
\* generator would have ended.
LEMMA UtteranceKeepsInv ==
    ASSUME ListenerInv, NEW i \in Listeners, Utterance(i)
    PROVE  ListenerInv'
<1> DEFINE l == listener[i]
           n == l.late + (IF l.told THEN 1 ELSE 0)
           r == [l EXCEPT !.at = "process", !.thread = "processing", !.late = n]
<1>1. /\ l \in Listener /\ OnTrack(l, host, now) /\ Running(i) /\ l.at = "listen" /\ l.generator
      /\ listener' = [listener EXCEPT ![i] = r]
      /\ recording' = FALSE /\ processing' = TRUE
      /\ UNCHANGED <<now, confirm, host, stopEvent, current, awaited, question>>
  BY TaskFacts DEF Utterance, Reading, Running
<1>2. l.late \in Nat /\ l.told \in BOOLEAN /\ l.late = 0
  BY <1>1 DEF Listener, OnTrack
<1>3. n \in Nat /\ n <= 1 /\ (n = 1 => l.told)
  <2>1. CASE l.told
    BY <1>2, <2>1
  <2>2. CASE ~l.told
    BY <1>2, <2>2
  <2> QED
    BY <2>1, <2>2
<1> HIDE DEF l, n
<1>4. /\ r \in Listener /\ r.at = "process" /\ r.alone = l.alone /\ r.thread = "processing"
      /\ r.told = l.told /\ r.late = n /\ r.window = l.window /\ r.heard = l.heard
  BY <1>1, <1>3 DEF Listener, Places
<1> HIDE DEF r
<1>5. OnTrack(r, host, now)
  BY <1>1, <1>3, <1>4 DEF OnTrack, Opened
<1>6. OnTrack(r, host', now)
  BY <1>1, <1>5
<1> QED
  BY <1>1, <1>4, <1>6, TaskFacts, OneMoves DEF l, Opened

LEMMA ReadRaisesKeepsInv ==
    ASSUME ListenerInv, NEW i \in Listeners, ReadRaises(i)
    PROVE  ListenerInv'
<1> DEFINE l == listener[i]
           r == [l EXCEPT !.at = "backoff", !.thread = "idle", !.generator = FALSE]
<1>1. /\ l \in Listener /\ OnTrack(l, host, now) /\ Running(i) /\ l.at = "listen"
      /\ UNCHANGED <<now, confirm, host, stopEvent, current, awaited>>
  BY TaskFacts DEF ReadRaises, Reading, Running
<1>2. CASE Finish(i)
  BY <1>1, <1>2, FinishKeepsInv
<1>3. CASE /\ listener' = [listener EXCEPT ![i] = r]
           /\ UNCHANGED <<recording, processing, question>>
  <2> HIDE DEF l
  <2>1. /\ r \in Listener /\ r.at = "backoff" /\ r.alone = l.alone /\ r.thread = "idle"
        /\ r.told = l.told /\ ~r.generator /\ r.late = l.late
        /\ r.window = l.window /\ r.heard = l.heard
    BY <1>1 DEF Listener, Places
  <2> HIDE DEF r
  <2>2. OnTrack(r, host, now)
    BY <1>1, <2>1 DEF OnTrack, Opened
  <2> QED
    BY <1>1, <1>3, <2>1, <2>2, MoveKeepsInv DEF l, Opened
<1> QED
  BY <1>2, <1>3 DEF ReadRaises


\* Only the thread of a task that waits for it, or one that a shutdown gave up,
\* asks.
LEMMA TranscribeKeepsInv ==
    ASSUME ListenerInv, NEW i \in Listeners, Transcribe(i)
    PROVE  ListenerInv'
<1>1. PICK text \in Texts :
         /\ Review(i, text)
         /\ listener' = [listener EXCEPT ![i] =
                IF Running(i) THEN [@ EXCEPT !.thread = "answered", !.text = text] ELSE Gone]
  BY DEF Transcribe
<1> DEFINE l == listener[i]
           r == [l EXCEPT !.thread = "answered", !.text = text]
<1>2. /\ l \in Listener /\ OnTrack(l, host, now) /\ l.thread = "processing"
      /\ UNCHANGED <<now, confirm, host, stopEvent, current, awaited, recording, processing>>
  BY TaskFacts DEF Transcribe
<1>3. question' = question \/ question' = NoQuestion
      \/ (question' \in Question /\ question'.run = i)
  BY <1>1, TaskFacts DEF Review, Ask, Question
<1>4. CASE Running(i)
  <2>1. listener' = [listener EXCEPT ![i] = r]
    BY <1>1, <1>4, TaskFacts
  <2>2. l.at = "process"
    BY <1>2, <1>4 DEF OnTrack, Running
  <2> HIDE DEF l
  <2>3. /\ r \in Listener /\ r.at = "process" /\ r.alone = l.alone /\ r.thread = "answered"
        /\ r.told = l.told /\ r.generator = l.generator /\ r.late = l.late
        /\ r.window = l.window /\ r.heard = l.heard
    BY <1>2, <2>2 DEF Listener
  <2> HIDE DEF r
  <2>4. OnTrack(r, host', now)
    BY <1>2, <2>2, <2>3 DEF OnTrack, Opened
  <2>5. r.at = "process" /\ r.alone => processing'
    BY <1>2, <2>2, <2>3 DEF ListenerInv, StatusHonest, l
  <2> QED
    BY <1>2, <1>3, <1>4, <2>1, <2>2, <2>3, <2>4, <2>5, TaskFacts, OneMoves DEF l, Opened
<1>5. CASE ~Running(i)
  <2>1. listener' = [listener EXCEPT ![i] = Gone]
    BY <1>1, <1>5
  <2>2. l.at = "done" /\ host \notin {"up", "stopping"}
    BY <1>2, <1>5 DEF OnTrack, Running
  <2>3. OnTrack(Gone, host', now)
    BY GoneOnTrack
  <2> HIDE DEF r
  <2> QED
    BY <1>2, <1>3, <2>1, <2>2, <2>3, TaskFacts, GoneType, OneMoves DEF Opened
<1> QED
  BY <1>4, <1>5

\* The window a task keeps open was opened by a shutdown it heard.
LEMMA ReportKeepsInv ==
    ASSUME ListenerInv, NEW i \in Listeners, listener[i].at = "process",
           NEW window \in Nat, Report(i, window),
           \/ window = listener[i].window
           \/ window = 0
           \/ window = now + WindowTTL /\ intent_shutdown(listener[i].text),
           UNCHANGED <<now, confirm, host, current, awaited>>
    PROVE  ListenerInv'
<1> DEFINE l == listener[i]
           heard == IF intent_shutdown(l.text) THEN {now} ELSE l.heard
           r == [l EXCEPT !.at = "pause", !.thread = "idle", !.text = "empty",
                          !.window = window, !.heard = heard]
<1>1. /\ l \in Listener /\ OnTrack(l, host, now) /\ l.at = "process" /\ Running(i)
      /\ listener' = [listener EXCEPT ![i] = r]
      /\ processing' = FALSE /\ UNCHANGED <<stopEvent, recording, question>>
  BY TaskFacts DEF Report, Running
<1>2. l.window \in Nat /\ l.heard \in SUBSET Nat /\ now \in Nat
  BY <1>1, TaskFacts DEF Listener
<1>3. heard \in SUBSET Nat
  BY <1>2
<1>4. window # 0 => window <= now + WindowTTL /\ \E t \in heard : window <= t + WindowTTL
  <2> SUFFICES ASSUME window # 0
               PROVE  window <= now + WindowTTL /\ \E t \in heard : window <= t + WindowTTL
    OBVIOUS
  <2>1. window <= now + WindowTTL
    <3>1. CASE window = l.window
      BY <1>1, <3>1 DEF OnTrack
    <3>2. CASE window = now + WindowTTL
      BY <1>2, <3>2
    <3> QED
      BY <3>1, <3>2
  <2>2. CASE intent_shutdown(l.text)
    BY <2>1, <2>2
  <2>3. CASE ~intent_shutdown(l.text)
    BY <1>1, <2>3 DEF OnTrack
  <2> QED
    BY <2>1, <2>2, <2>3
<1> HIDE DEF l, heard
<1>5. /\ r \in Listener /\ r.at = "pause" /\ r.alone = l.alone /\ r.thread = "idle"
      /\ r.told = l.told /\ r.generator = l.generator /\ r.late = l.late
      /\ r.window = window /\ r.heard = heard
  BY <1>1, <1>3 DEF Listener, Places, Texts
<1> HIDE DEF r
<1>6. OnTrack(r, host', now)
  BY <1>1, <1>4, <1>5 DEF OnTrack, Opened
<1> QED
  BY <1>1, <1>5, <1>6, TaskFacts, OneMoves DEF l, Opened

LEMMA CycleKeepsInv ==
    ASSUME ListenerInv, NEW i \in Listeners, Cycle(i)
    PROVE  ListenerInv'
<1>1. /\ listener[i] \in Listener /\ OnTrack(listener[i], host, now)
      /\ listener[i].thread = "answered" /\ now \in Nat
      /\ UNCHANGED <<now, confirm, host, current, awaited>>
  BY TaskFacts DEF Cycle
<1>2. listener[i].at = "process" /\ listener[i].window \in Nat /\ Running(i)
  BY <1>1 DEF OnTrack, Listener, Running
<1>3. \/ VoiceStop(i)
      \/ Report(i, listener[i].window)
      \/ Report(i, 0)
      \/ Report(i, now + WindowTTL) /\ intent_shutdown(listener[i].text)
  BY DEF Cycle
<1>4. CASE VoiceStop(i)
  <2>1. OnTrack(Gone, host', now)
    BY GoneOnTrack
  <2> QED
    BY <1>1, <1>2, <1>4, <2>1, TaskFacts, ToldType, GoneType, OneMoves DEF VoiceStop
<1>5. CASE Report(i, listener[i].window)
  BY <1>1, <1>2, <1>5, ReportKeepsInv
<1>6. CASE Report(i, 0)
  BY <1>1, <1>2, <1>6, ReportKeepsInv
<1>7. CASE Report(i, now + WindowTTL) /\ intent_shutdown(listener[i].text)
  <2>1. now + WindowTTL \in Nat
    BY <1>1
  <2> QED
    BY <1>1, <1>2, <1>7, <2>1, ReportKeepsInv
<1> QED
  BY <1>3, <1>4, <1>5, <1>6, <1>7

LEMMA TickKeepsInv ==
    ASSUME ListenerInv, Tick
    PROVE  ListenerInv'
<1>1. /\ listener \in [Listeners -> Listener] /\ stopEvent \in BOOLEAN /\ now \in Nat
      /\ \A j \in Listeners : OnTrack(listener[j], host, now)
      /\ host \in {"up", "stopping", "answered", "closing", "down"}
      /\ current \in Listeners \cup {0} /\ awaited \in Listeners \cup {0}
  BY DEF ListenerInv, TypeOK
<1>2. now' \in Nat /\ now <= now'
  BY <1>1 DEF Tick
<1> QED
  BY <1>1, <1>2, NoneMoves DEF Tick

-----------------------------------------------------------------------------
(* The invariant *)

LEMMA InitHasInv == Init => ListenerInv
<1> SUFFICES ASSUME Init PROVE ListenerInv
  OBVIOUS
<1> DEFINE boot == [Idle EXCEPT !.at = "delay"]
<1>1. /\ boot \in Listener /\ boot.at = "delay" /\ boot.alone /\ boot.thread = "idle"
      /\ boot.late = 0 /\ boot.window = 0
  BY GoneType DEF Listener, Places
<1>2. listener = [i \in Listeners |-> IF i = current THEN boot ELSE Idle]
  BY DEF Init
<1> HIDE DEF boot
<1>3. \A i \in Listeners : listener[i] \in Listener /\ OnTrack(listener[i], host, now)
  BY <1>1, <1>2, GoneType DEF OnTrack, Opened
<1>4. TypeOK
  <2>1. listener \in [Listeners -> Listener]
    BY <1>2, <1>3
  <2>2. current \in Listeners \cup {0}
    BY DEF Init, Listeners
  <2> QED
    BY <2>1, <2>2 DEF Init, TypeOK
<1>5. StatusHonest
  BY <1>1, <1>2, GoneType DEF Init, StatusHonest
<1>6. AloneRuns
  BY <1>2, GoneType DEF AloneRuns, Running
<1>7. AskerRuns
  BY DEF Init, AskerRuns
<1> QED
  BY <1>3, <1>4, <1>5, <1>6, <1>7 DEF ListenerInv

LEMMA NextKeepsInv == ListenerInv /\ [Next]_vars => ListenerInv'
<1> SUFFICES ASSUME ListenerInv, [Next]_vars PROVE ListenerInv'
  OBVIOUS
<1>1. CASE Start \/ Stop \/ Select \/ Shutdown \/ ShutdownAnswers \/ SignalExit \/ Interrupt
  BY <1>1, RoutesKeepInv
<1>2. CASE ShutdownTimeout
  BY <1>2, TimeoutKeepsInv
<1>3. CASE Closed
  BY <1>3, ClosedKeepsInv
<1>4. CASE Tick
  BY <1>4, TickKeepsInv
<1>5. ASSUME NEW i \in Listeners, Delay(i) \/ Open(i) PROVE ListenerInv'
  BY <1>5, DelayKeepsInv, OpenKeepsInv
<1>6. ASSUME NEW i \in Listeners, Calibrated(i) PROVE ListenerInv'
  <2>1. /\ listener[i].at = "calibrate" /\ Running(i)
        /\ UNCHANGED <<now, confirm, host, stopEvent, current, awaited>>
    BY <1>6 DEF Calibrated, Running
  <2>2. Again(i) \/ Finish(i)
    BY <1>6 DEF Calibrated
  <2> QED
    BY <2>1, <2>2, AgainKeepsInv, FinishKeepsInv
<1>7. ASSUME NEW i \in Listeners, CalibrationStopped(i) \/ Speech(i) \/ Utterance(i) PROVE ListenerInv'
  BY <1>7, StoppedKeepsInv, SpeechKeepsInv, UtteranceKeepsInv
<1>8. ASSUME NEW i \in Listeners, UtterancesEnd(i) PROVE ListenerInv'
  BY <1>8, FinishKeepsInv DEF UtterancesEnd, Running
<1>9. ASSUME NEW i \in Listeners, ReadRaises(i) PROVE ListenerInv'
  BY <1>9, ReadRaisesKeepsInv
<1>10. ASSUME NEW i \in Listeners, Retry(i) PROVE ListenerInv'
  BY <1>10, AgainKeepsInv DEF Retry
<1>11. ASSUME NEW i \in Listeners, ProcessRaises(i) PROVE ListenerInv'
  BY <1>11, FinishKeepsInv DEF ProcessRaises, Running
<1>12. ASSUME NEW i \in Listeners, Transcribe(i) \/ Cycle(i) PROVE ListenerInv'
  BY <1>12, TranscribeKeepsInv, CycleKeepsInv
<1>13. CASE UNCHANGED vars
  BY <1>13 DEF vars, ListenerInv, TypeOK, StatusHonest, AloneRuns, AskerRuns, Running
<1> QED
  BY <1>1, <1>2, <1>3, <1>4, <1>5, <1>6, <1>7, <1>8, <1>9, <1>10, <1>11, <1>12, <1>13
     DEF Next, Process

LEMMA InvHolds == Spec => []ListenerInv
BY InitHasInv, NextKeepsInv, PTL DEF Spec

-----------------------------------------------------------------------------
(* What it means *)

\* Every variable has its type: run_listener, the routes and the review.
THEOREM ListenerTypeCorrect == Spec => []TypeOK
<1>1. ListenerInv => TypeOK
  BY DEF ListenerInv
<1> QED
  BY <1>1, InvHolds, PTL

\* What clients see of the listener is what a listener does, however many
\* routes start, stop and restart it and whatever ends a task.
THEOREM StatusIsHonest == Spec => []StatusHonest
<1>1. ListenerInv => StatusHonest
  BY DEF ListenerInv
<1> QED
  BY <1>1, InvHolds, PTL

\* A "did you mean" is never left to a listener that did not ask it.
THEOREM QuestionEndsWithItsRun == Spec => []QuestionOfThisRun
<1>1. ListenerInv => QuestionOfThisRun
  <2> SUFFICES ASSUME ListenerInv, host \in {"up", "stopping"}, question # NoQuestion
               PROVE  Running(question.run)
    BY DEF QuestionOfThisRun
  <2>1. question.run \in Listeners /\ listener[question.run].at \in Opened
    BY DEF ListenerInv, TypeOK, AskerRuns, Question
  <2> QED
    BY <2>1 DEF Running, Opened
<1> QED
  BY <1>1, InvHolds, PTL

\* One utterance at most is taken up after a stop, though the event may be
\* cleared again at once.
THEOREM OneMoreUtterance == Spec => []OneMoreAtMost
<1>1. ListenerInv => OneMoreAtMost
  BY DEF ListenerInv, OnTrack, OneMoreAtMost
<1> QED
  BY <1>1, InvHolds, PTL

\* Whoever says "go ahead" stops the host only if the same listener heard a
\* shutdown within the window.
THEOREM ConfirmedShutdown == Spec => VoiceStopConfirmed
<1>1. ASSUME ListenerInv, [Next]_vars, NEW i \in Listeners PROVE ConfirmedInTime(i)
  <2> SUFFICES ASSUME confirm, listener[i].thread = "answered",
                      ~stopEvent, stopEvent', listener'[i].at = "done"
               PROVE  /\ intent_confirm(listener[i].text)
                      /\ \E t \in listener[i].heard : now <= t + WindowTTL
    BY DEF ConfirmedInTime
  <2>1. /\ listener[i] \in Listener /\ OnTrack(listener[i], host, now)
        /\ listener[i].at = "process" /\ Told[i].at = "process"
        /\ now \in Nat /\ Told \in [Listeners -> Listener]
    BY <1>1, TaskFacts, ToldType DEF OnTrack
  <2>2. listener' # Told
    BY <2>1
  <2>3. PICK j \in Listeners : Cycle(j) /\ VoiceStop(j)
    <3>1. ~(Stop \/ Shutdown \/ SignalExit \/ Interrupt)
      BY <2>2 DEF Stop, Shutdown, SignalExit, Interrupt, CloseLifespan
    <3>2. stopEvent' # stopEvent /\ stopEvent' # FALSE
      OBVIOUS
    <3>3. ~(Start \/ Select \/ ShutdownTimeout \/ ShutdownAnswers \/ Closed \/ Tick)
      BY <3>2 DEF Start, Select, ShutdownTimeout, ShutdownAnswers, Closed, Tick
    <3>4. PICK j \in Listeners :
             \/ Delay(j) \/ Open(j) \/ Calibrated(j) \/ CalibrationStopped(j)
             \/ Speech(j) \/ Utterance(j) \/ UtterancesEnd(j) \/ ReadRaises(j) \/ Retry(j)
             \/ Process(j) \/ Cycle(j)
      BY <1>1, <3>1, <3>2, <3>3 DEF Next, vars
    <3>5. Cycle(j)
      BY <3>2, <3>4 DEF Delay, Open, Calibrated, CalibrationStopped, Speech, Utterance,
         UtterancesEnd, ReadRaises, Retry, Process, Transcribe, ProcessRaises
    <3> QED
      BY <3>2, <3>5 DEF Cycle, Report
  <2>4. j = i
    BY <2>1, <2>3 DEF VoiceStop
  <2>5. WindowOpen(i) /\ intent_confirm(listener[i].text)
    BY <2>3, <2>4 DEF Cycle, Report
  <2>6. listener[i].window \in Nat /\ listener[i].window # 0 /\ now <= listener[i].window
    BY <2>1, <2>5 DEF WindowOpen, Listener
  <2>7. PICK t \in listener[i].heard : listener[i].window <= t + WindowTTL
    BY <2>1, <2>6 DEF OnTrack
  <2>8. t \in Nat
    BY <2>1, <2>7 DEF Listener
  <2>9. now <= t + WindowTTL
    BY <2>1, <2>6, <2>7, <2>8
  <2> QED
    BY <2>5, <2>7, <2>9
<1>2. ListenerInv /\ [Next]_vars => [\A i \in Listeners : ConfirmedInTime(i)]_vars
  BY <1>1
<1> QED
  BY <1>2, InvHolds, PTL DEF Spec, VoiceStopConfirmed

=============================================================================
