----------------------------- MODULE TaskSlots -----------------------------
(***************************************************************************)
(* What host tasks promise, without clocks, cards, threads or logs: a      *)
(* conversation key has one slot, in which a task first waits and then     *)
(* runs.  A task runs once, executes its steps in order and only while it  *)
(* runs, and keeps its slot until it stops.                                *)
(***************************************************************************)
EXTENDS Naturals, Sequences

CONSTANTS Tasks, Keys, StepsOf

VARIABLES slot,   \* what each key's slot holds
          used,   \* the tasks that were started or turned away
          steps   \* how many steps of each task were executed

vars == <<slot, used, steps>>

Free == [state |-> "free"]
WaitingFor(t) == [state |-> "waiting", task |-> t]
Running(t) == [state |-> "running", task |-> t]

IsRunning(k) == slot[k].state = "running"
Holds(k, t) == slot[k] = Running(t)

Init ==
    /\ slot = [k \in Keys |-> Free]
    /\ used = {}
    /\ steps = [t \in Tasks |-> 0]

\* t takes the slot of k unless a task runs there.
Offer(k, t) ==
    /\ t \notin used
    /\ ~IsRunning(k)
    /\ slot' = [slot EXCEPT ![k] = WaitingFor(t)]
    /\ UNCHANGED <<used, steps>>

Start(k, t) ==
    /\ slot[k] = WaitingFor(t)
    /\ t \notin used
    /\ slot' = [slot EXCEPT ![k] = Running(t)]
    /\ used' = used \cup {t}
    /\ UNCHANGED steps

\* What waits may be turned away or forgotten.
Drop(k) ==
    /\ ~IsRunning(k)
    /\ slot' = [slot EXCEPT ![k] = Free]
    /\ used' \in SUBSET Tasks /\ used \subseteq used'
    /\ UNCHANGED steps

Refuse(t) ==
    /\ t \notin used
    /\ used' = used \cup {t}
    /\ UNCHANGED <<slot, steps>>

Step(k, t) ==
    /\ Holds(k, t)
    /\ steps[t] < Len(StepsOf[t])
    /\ steps' = [steps EXCEPT ![t] = @ + 1]
    /\ UNCHANGED <<slot, used>>

Stop(k, t) ==
    /\ Holds(k, t)
    /\ slot' = [slot EXCEPT ![k] = Free]
    /\ UNCHANGED <<used, steps>>

\* The host goes down: every slot is free again, and what ran does not resume.
Crash ==
    /\ slot' = [k \in Keys |-> Free]
    /\ UNCHANGED <<used, steps>>

Next ==
    \/ \E k \in Keys, t \in Tasks : Offer(k, t) \/ Start(k, t) \/ Step(k, t) \/ Stop(k, t)
    \/ \E k \in Keys : Drop(k)
    \/ \E t \in Tasks : Refuse(t)
    \/ Crash

Spec == Init /\ [][Next]_vars
=============================================================================
