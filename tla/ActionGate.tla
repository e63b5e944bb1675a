----------------------------- MODULE ActionGate -----------------------------
(***************************************************************************)
(* What the approval gate promises, without conversations, sessions, clocks *)
(* or logs: a request goes forward through its stages, one request at a    *)
(* time is let through and acts, and a request that left the gate stays    *)
(* out.  A request may also go around the gate, in one step.               *)
(***************************************************************************)
EXTENDS Naturals

CONSTANT Requests

VARIABLES stage,    \* where each request is
          effects   \* how often it took effect

vars == <<stage, effects>>

Stages == {"new", "waiting", "authorised", "acted", "closed"}

\* A waiting request may be dropped at any moment: it expired, a newer one
\* took its place, or the host went down.
MayDrop(r, t) == stage[r] = "waiting" /\ t = "closed"

\* r moves from one of the stages `from' to the stage `to'; others may be
\* dropped meanwhile.
Move(r, from, to) ==
    /\ stage[r] \in from
    /\ stage' \in [Requests -> Stages]
    /\ stage'[r] = to
    /\ \A q \in Requests \ {r} : stage'[q] = stage[q] \/ MayDrop(q, stage'[q])

Quiet == \A q \in Requests : stage[q] \notin {"authorised", "acted"}

Init ==
    /\ stage = [r \in Requests |-> "new"]
    /\ effects = [r \in Requests |-> 0]

Ask(r) ==
    /\ Quiet
    /\ \E to \in {"waiting", "authorised", "closed"} : Move(r, {"new"}, to)
    /\ UNCHANGED effects

Answer(r) ==
    /\ Quiet
    /\ \E to \in {"authorised", "closed"} : Move(r, {"waiting"}, to)
    /\ UNCHANGED effects

\* It takes effect, once, or turns out not to.
Act(r) ==
    /\ Move(r, {"authorised"}, "acted")
    /\ effects' \in {effects, [effects EXCEPT ![r] = @ + 1]}

Finish(r) ==
    /\ Move(r, {"acted"}, "closed")
    /\ UNCHANGED effects

\* It takes effect without having been let through, and is never seen again.
GoAround(r) ==
    /\ Quiet
    /\ Move(r, {"new"}, "closed")
    /\ effects' = [effects EXCEPT ![r] = @ + 1]

\* The host goes down.  A request it had neither logged nor acted upon was
\* never there; everything else is closed.
Crash ==
    /\ stage' \in [Requests -> Stages]
    /\ \A r \in Requests :
         \/ stage[r] = "new" /\ stage'[r] = "new"
         \/ stage[r] = "closed" /\ stage'[r] = "closed"
         \/ stage[r] \in {"waiting", "authorised", "acted"} /\ stage'[r] = "closed"
         \/ stage[r] \in {"authorised", "acted"} /\ stage'[r] = "new" /\ effects[r] = 0
    /\ UNCHANGED effects

Drop ==
    /\ stage' \in [Requests -> Stages]
    /\ \A r \in Requests : stage'[r] = stage[r] \/ MayDrop(r, stage'[r])
    /\ UNCHANGED effects

Next ==
    \/ \E r \in Requests : Ask(r) \/ Answer(r) \/ Act(r) \/ Finish(r) \/ GoAround(r)
    \/ Drop
    \/ Crash

Spec == Init /\ [][Next]_vars
=============================================================================
