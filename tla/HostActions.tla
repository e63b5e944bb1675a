---------------------------- MODULE HostActions ----------------------------
(***************************************************************************)
(* Risky host actions (running a command, writing a file): the approval    *)
(* gate in front of them, the trust grants that open it for a while, the   *)
(* execution behind it and the audit log; and the HTTP routes that write   *)
(* files and run commands without passing the gate.                        *)
(*                                                                         *)
(* The handlers run on the host's event loop without awaiting, so a        *)
(* handler is not interleaved with another handler; `run' is the action    *)
(* the event loop is blocked on.  Time passes and the host may die while   *)
(* it is blocked.  Pending approvals, grants and the run live in memory,   *)
(* the log in SQLite.                                                      *)
(***************************************************************************)
EXTENDS Naturals, Sequences

CONSTANTS Requests,      \* host actions that clients may ask for, each asked once
          Keys,          \* conversation keys: ids and the "__default__" key
          Sessions,      \* client session keys, the missing id included
          NoSession,     \* the session key of a client that sends no session id
          KindOf,        \* request -> the kind of action it is
          DefaultMode,   \* settings.agent_default_access_mode
          ApprovalTTL,   \* lifetime of a pending approval, in ticks
          TrustTTL,      \* lifetime of a trust grant, in ticks
          MaxTime        \* bound on the clock

ActionKinds == {"run_command", "write_file"}
AccessModes == {"read_only", "approve_risky", "full_access"}

ASSUME SessionAssumption == NoSession \in Sessions
ASSUME KindAssumption == KindOf \in [Requests -> ActionKinds]
ASSUME TimeAssumption ==
    /\ ApprovalTTL \in Nat \ {0}
    /\ TrustTTL \in Nat \ {0}
    /\ MaxTime \in Nat

VARIABLES now,              \* the clock
          pendingApproval,  \* _pending_host_approvals
          convTrust,        \* _conversation_action_trust: expiry per key and kind
          sessTrust,        \* _session_action_trust: expiry per session and kind
          run,              \* the host action being executed, if any
          log,              \* the rows of agent_action_log
          effects           \* how often each request took effect on the host

vars == <<now, pendingApproval, convTrust, sessTrust, run, log, effects>>

\* A missing dictionary entry reads as one that has expired: expiry 0.
Absent == [expires |-> 0]
IdleRun == [phase |-> "idle"]

RawModes == AccessModes \cup {"unset", "other"}
Events == {"requested", "blocked", "denied", "approved", "trusted", "executed", "failed"}
Scopes == {"none", "conversation", "session"}

Pending == [req : Requests, expires : Nat \ {0}]
Run == [phase : {"started", "performed", "broken"}, req : Requests, key : Keys,
        session : Sessions, mode : AccessModes, since : Nat]
Entry == [event : Events, req : Requests, key : Keys, session : Sessions,
          mode : AccessModes, scope : Scopes, at : Nat]

TypeOK ==
    /\ now \in Nat
    /\ pendingApproval \in [Keys -> Pending \cup {Absent}]
    /\ convTrust \in [Keys -> [ActionKinds -> Nat]]
    /\ sessTrust \in [Sessions -> [ActionKinds -> Nat]]
    /\ run \in Run \cup {IdleRun}
    /\ log \in Seq(Entry)
    /\ effects \in [Requests -> Nat]

-----------------------------------------------------------------------------
(* Reading the dictionaries *)

NormalizeMode(raw) ==
    LET value == IF raw = "unset" THEN DefaultMode ELSE raw
    IN  IF value \in AccessModes THEN value ELSE "approve_risky"

\* Mutation: expiry is not looked at.
PendingEver(k) == pendingApproval[k] # Absent

PendingLive(k) == pendingApproval[k].expires > now

TrustLive(k, s, kind) == convTrust[k][kind] > now \/ sessTrust[s][kind] > now

\* get_host_action_trust forgets the expired grants it meets, and reads the
\* session's grants only when the conversation has none.
ForgetExpiredTrust(k, s, kind) ==
    /\ convTrust' = IF convTrust[k][kind] > now THEN convTrust
                    ELSE [convTrust EXCEPT ![k][kind] = 0]
    /\ sessTrust' = IF convTrust[k][kind] > now \/ sessTrust[s][kind] > now THEN sessTrust
                    ELSE [sessTrust EXCEPT ![s][kind] = 0]

Row(event, r, k, s, mode, scope) ==
    [event |-> event, req |-> r, key |-> k, session |-> s,
     mode |-> mode, scope |-> scope, at |-> now]

StartRun(r, k, s, mode) ==
    run' = [phase |-> "started", req |-> r, key |-> k, session |-> s,
            mode |-> mode, since |-> now]

\* Every request that was ever acted upon left a row, is being executed or, if
\* it was posted to the tool routes, took effect without leaving one.
Fresh(r) ==
    /\ \A i \in 1..Len(log) : log[i].req # r
    /\ run.phase # "idle" => run.req # r
    /\ effects[r] = 0

Init ==
    /\ now = 0
    /\ pendingApproval = [k \in Keys |-> Absent]
    /\ convTrust = [k \in Keys |-> [a \in ActionKinds |-> 0]]
    /\ sessTrust = [s \in Sessions |-> [a \in ActionKinds |-> 0]]
    /\ run = IdleRun
    /\ log = <<>>
    /\ effects = [r \in Requests |-> 0]

-----------------------------------------------------------------------------
(* A client asks for a risky action *)

\* Under full access the action starts at once.
GuardFullAccess(r, k, s, mode) ==
    /\ mode = "full_access"
    /\ StartRun(r, k, s, mode)
    /\ UNCHANGED <<now, pendingApproval, convTrust, sessTrust, log, effects>>

\* Under approve_risky an active grant lets it start as well.
GuardTrusted(r, k, s, mode) ==
    /\ mode = "approve_risky"
    /\ TrustLive(k, s, KindOf[r])
    /\ StartRun(r, k, s, mode)
    /\ ForgetExpiredTrust(k, s, KindOf[r])
    /\ UNCHANGED <<now, pendingApproval, log, effects>>

\* Otherwise it waits for a decision, in the place of whatever waited before.
GuardPending(r, k, s, mode) ==
    /\ mode = "approve_risky"
    /\ ~TrustLive(k, s, KindOf[r])
    /\ pendingApproval' = [pendingApproval EXCEPT ![k] = [req |-> r, expires |-> now + ApprovalTTL]]
    /\ log' = Append(log, Row("requested", r, k, s, mode, "none"))
    /\ ForgetExpiredTrust(k, s, KindOf[r])
    /\ UNCHANGED <<now, run, effects>>

\* A read-only client is turned away.
GuardBlocked(r, k, s, mode) ==
    /\ mode = "read_only"
    /\ log' = Append(log, Row("blocked", r, k, s, mode, "none"))
    /\ UNCHANGED <<now, pendingApproval, convTrust, sessTrust, run, effects>>

Guard(r, k, s, raw) ==
    /\ run.phase = "idle"
    /\ Fresh(r)
    /\ \/ GuardFullAccess(r, k, s, NormalizeMode(raw))
       \/ GuardTrusted(r, k, s, NormalizeMode(raw))
       \/ GuardPending(r, k, s, NormalizeMode(raw))
       \/ GuardBlocked(r, k, s, NormalizeMode(raw))

-----------------------------------------------------------------------------
(* A client answers *)

\* Mutations: the entry is emptied rather than removed; it is left alone; the
\* whole dictionary is emptied.
EmptyPending(k) == pendingApproval' = [pendingApproval EXCEPT ![k].expires = 0]
KeepPending(k) == UNCHANGED pendingApproval
ClearAllPending(k) == pendingApproval' = [j \in Keys |-> Absent]

ClearPending(k) == pendingApproval' = [pendingApproval EXCEPT ![k] = Absent]

\* Mutation: the denied approval goes on waiting.
DenyOnly(k) ==
    /\ log' = Append(log, Row("denied", pendingApproval[k].req, k, NoSession, "approve_risky", "none"))
    /\ UNCHANGED <<now, pendingApproval, convTrust, sessTrust, run, effects>>

Deny(k) ==
    /\ log' = Append(log, Row("denied", pendingApproval[k].req, k, NoSession, "approve_risky", "none"))
    /\ ClearPending(k)
    /\ UNCHANGED <<now, convTrust, sessTrust, run, effects>>

\* Mutation: an approval is not logged.
ApproveUnlogged(k, s) ==
    /\ ClearPending(k)
    /\ StartRun(pendingApproval[k].req, k, s, "approve_risky")
    /\ UNCHANGED <<now, convTrust, sessTrust, log, effects>>

Approve(k, s) ==
    /\ log' = Append(log, Row("approved", pendingApproval[k].req, k, s, "approve_risky", "none"))
    /\ ClearPending(k)
    /\ StartRun(pendingApproval[k].req, k, s, "approve_risky")
    /\ UNCHANGED <<now, convTrust, sessTrust, effects>>

TrustConversation(k, s) ==
    /\ convTrust' = [convTrust EXCEPT ![k][KindOf[pendingApproval[k].req]] = now + TrustTTL]
    /\ log' = Append(log, Row("trusted", pendingApproval[k].req, k, s, "approve_risky", "conversation"))
    /\ ClearPending(k)
    /\ StartRun(pendingApproval[k].req, k, s, "approve_risky")
    /\ UNCHANGED <<now, sessTrust, effects>>

TrustSession(k, s) ==
    /\ sessTrust' = [sessTrust EXCEPT ![s][KindOf[pendingApproval[k].req]] = now + TrustTTL]
    /\ log' = Append(log, Row("trusted", pendingApproval[k].req, k, s, "approve_risky", "session"))
    /\ ClearPending(k)
    /\ StartRun(pendingApproval[k].req, k, s, "approve_risky")
    /\ UNCHANGED <<now, convTrust, effects>>

Decide(k, s) ==
    /\ run.phase = "idle"
    /\ PendingLive(k)
    /\ Deny(k) \/ Approve(k, s) \/ TrustConversation(k, s) \/ TrustSession(k, s)

\* Any message in a conversation whose approval has expired forgets it.
ForgetExpiredPending(k) ==
    /\ run.phase = "idle"
    /\ ~PendingLive(k)
    /\ pendingApproval[k] # Absent
    /\ ClearPending(k)
    /\ UNCHANGED <<now, convTrust, sessTrust, run, log, effects>>

-----------------------------------------------------------------------------
(* The action runs *)

\* run_reply / write_file: it takes effect and succeeds, takes effect and then
\* raises (a write cut short), or raises before it did anything.
Perform ==
    /\ run.phase = "started"
    /\ \/ /\ run' = [run EXCEPT !.phase = "performed"]
          /\ effects' = [effects EXCEPT ![run.req] = @ + 1]
       \/ /\ run' = [run EXCEPT !.phase = "broken"]
          /\ effects' = [effects EXCEPT ![run.req] = @ + 1]
       \/ /\ run' = [run EXCEPT !.phase = "broken"]
          /\ UNCHANGED effects
    /\ UNCHANGED <<now, pendingApproval, convTrust, sessTrust, log>>

LogOutcome ==
    /\ run.phase \in {"performed", "broken"}
    /\ log' = Append(log, Row(IF run.phase = "performed" THEN "executed" ELSE "failed",
                              run.req, run.key, run.session, run.mode, "none"))
    /\ run' = IdleRun
    /\ UNCHANGED <<now, pendingApproval, convTrust, sessTrust, effects>>

-----------------------------------------------------------------------------
(* Around the gate *)

\* POST /agent/tools/write and /agent/tools/run call the host tools at once:
\* no access mode is read, nothing waits for an answer and no row is written.
\* One that raises before it did anything changes nothing.
ToolRoute(r) ==
    /\ run.phase = "idle"
    /\ Fresh(r)
    /\ effects' = [effects EXCEPT ![r] = @ + 1]
    /\ UNCHANGED <<now, pendingApproval, convTrust, sessTrust, run, log>>

-----------------------------------------------------------------------------
(* The environment *)

Tick ==
    /\ now < MaxTime
    /\ now' = now + 1
    /\ UNCHANGED <<pendingApproval, convTrust, sessTrust, run, log, effects>>

\* The host process dies and comes back: only the database survives.
Restart ==
    /\ pendingApproval' = [k \in Keys |-> Absent]
    /\ convTrust' = [k \in Keys |-> [a \in ActionKinds |-> 0]]
    /\ sessTrust' = [s \in Sessions |-> [a \in ActionKinds |-> 0]]
    /\ run' = IdleRun
    /\ UNCHANGED <<now, log, effects>>

HostStep ==
    \/ \E r \in Requests, k \in Keys, s \in Sessions, raw \in RawModes : Guard(r, k, s, raw)
    \/ \E k \in Keys, s \in Sessions : Decide(k, s)
    \/ \E k \in Keys : ForgetExpiredPending(k)
    \/ Perform
    \/ LogOutcome
    \/ \E r \in Requests : ToolRoute(r)
    \/ Tick

Next == HostStep \/ Restart

Spec == Init /\ [][Next]_vars
-----------------------------------------------------------------------------
(* Properties *)

RowsOf(r) == {i \in 1..Len(log) : log[i].req = r}
HasRow(r, events) == \E i \in RowsOf(r) : log[i].event \in events

Verdicts == {"denied", "approved", "trusted", "blocked"}
Outcomes == {"executed", "failed"}

\* The log shows that the user let x run by answering its own card in time.
DecidedOnCard(x) ==
    \E d \in 1..Len(log) : \E q \in 1..(d - 1) :
        /\ log[d].event \in {"approved", "trusted"}
        /\ log[d].req = x.req /\ log[d].key = x.key /\ log[d].at = x.since
        /\ log[q].event = "requested"
        /\ log[q].req = x.req /\ log[q].key = x.key
        /\ log[d].at < log[q].at + ApprovalTTL

\* The log shows a grant for this kind of action, in this conversation or to
\* this session, that had not run out when x started.
CoveredByTrust(x) ==
    \E t \in 1..Len(log) :
        /\ log[t].event = "trusted"
        /\ KindOf[log[t].req] = KindOf[x.req]
        /\ \/ log[t].scope = "conversation" /\ log[t].key = x.key
           \/ log[t].scope = "session" /\ log[t].session = x.session
        /\ x.since < log[t].at + TrustTTL

Authorised(x) == x.mode = "full_access" \/ DecidedOnCard(x) \/ CoveredByTrust(x)

\* A request that takes effect was asked for under full access, or was let
\* through by a timely answer to its own card, or falls under a live grant of
\* the same kind and scope; the only exception is one posted to the tool
\* routes, which ask nobody.  Expiry, overwritten approvals, restarts and the
\* two trust scopes never let anything else through the gate.
EffectAuthorised ==
    [][\A r \in Requests : effects'[r] # effects[r] =>
        \/ run.phase = "started" /\ run.req = r /\ Authorised(run)
        \/ ToolRoute(r)]_vars

\* No request takes effect twice, whatever is answered, retried or restarted,
\* and none does after it was denied or blocked.
AtMostOnce ==
    \A r \in Requests :
        /\ effects[r] <= 1
        /\ HasRow(r, {"denied", "blocked"}) => effects[r] = 0

\* The audit trail of a request has at most one verdict and at most one
\* outcome, and a request that was put on a card has no outcome before its
\* verdict.
AuditTrail ==
    \A i, j \in 1..Len(log) : log[i].req = log[j].req /\ i < j =>
        /\ ~(log[i].event \in Verdicts /\ log[j].event \in Verdicts)
        /\ ~(log[i].event \in Outcomes)
        /\ log[j].event # "requested"

\* Even if the host dies at any point, an action that waited on a card and
\* took effect has its approval on record: the log is written first.
EffectOnRecord ==
    \A r \in Requests :
        effects[r] > 0 /\ HasRow(r, {"requested"}) => HasRow(r, {"approved", "trusted"})

\* A conversation's waiting approval leaves only by an answer, by expiry, by
\* a newer request in the same conversation or by a restart; it is never
\* dropped by what happens in another conversation or by a grant.
KeptOrAnswered(k) ==
    PendingLive(k) /\ pendingApproval'[k] # pendingApproval[k] =>
        \/ Restart
        \/ /\ Len(log') = Len(log) + 1
           /\ log'[Len(log')].key = k
           /\ log'[Len(log')].event \in {"requested", "denied", "approved", "trusted"}

PendingKept == [][\A k \in Keys : KeptOrAnswered(k)]_vars
-----------------------------------------------------------------------------
(* Why the properties hold: what the dictionaries and the run owe the log *)

\* What the gate is executing was authorised when it started, and stays so.
RunAuthorised == run.phase # "idle" => Authorised(run)

\* What waits in a conversation was put on a card there, nobody has answered
\* it, it has not run, and it waits nowhere else.
WaitsOnRecord(k) ==
    LET r == pendingApproval[k].req
    IN  /\ \E q \in 1..Len(log) :
             /\ log[q].event = "requested" /\ log[q].req = r /\ log[q].key = k
             /\ pendingApproval[k].expires = log[q].at + ApprovalTTL
        /\ \A i \in 1..Len(log) : log[i].req = r => log[i].event = "requested"
        /\ effects[r] = 0
        /\ run.phase # "idle" => run.req # r
        /\ \A j \in Keys : pendingApproval[j] # Absent /\ pendingApproval[j].req = r => j = k

PendingOnRecord == \A k \in Keys : pendingApproval[k] # Absent => WaitsOnRecord(k)

\* A grant was given by a decision in the log, and runs out a TrustTTL later.
TrustOnRecord ==
    \A kind \in ActionKinds :
        /\ \A k \in Keys : convTrust[k][kind] > 0 =>
             \E t \in 1..Len(log) :
                 /\ log[t].event = "trusted" /\ log[t].scope = "conversation"
                 /\ log[t].key = k /\ KindOf[log[t].req] = kind
                 /\ convTrust[k][kind] = log[t].at + TrustTTL
        /\ \A s \in Sessions : sessTrust[s][kind] > 0 =>
             \E t \in 1..Len(log) :
                 /\ log[t].event = "trusted" /\ log[t].scope = "session"
                 /\ log[t].session = s /\ KindOf[log[t].req] = kind
                 /\ sessTrust[s][kind] = log[t].at + TrustTTL

\* The request being executed has no refusal and no outcome yet, has taken
\* effect only if it was performed, and was let through if it was on a card.
RunOnRecord ==
    run.phase # "idle" =>
        /\ \A i \in 1..Len(log) : log[i].req = run.req =>
             log[i].event \in {"requested", "approved", "trusted"}
        /\ effects[run.req] <= 1
        /\ run.phase = "started" => effects[run.req] = 0
        /\ HasRow(run.req, {"requested"}) => HasRow(run.req, {"approved", "trusted"})

SafetyInv ==
    /\ RunAuthorised
    /\ AtMostOnce
    /\ AuditTrail
    /\ EffectOnRecord
    /\ PendingOnRecord
    /\ TrustOnRecord
    /\ RunOnRecord

-----------------------------------------------------------------------------
(* The gate as its clients see it *)

stage == [r \in Requests |->
    IF run.phase # "idle" /\ run.req = r
    THEN IF run.phase = "started" THEN "authorised" ELSE "acted"
    ELSE IF \E k \in Keys : pendingApproval[k] # Absent /\ pendingApproval[k].req = r THEN "waiting"
    ELSE IF Fresh(r) THEN "new" ELSE "closed"]

Gate == INSTANCE ActionGate

\* The dictionaries, the clock, the grants and the log together keep the
\* gate's promise: no answer, expiry or restart re-opens a request.
ImplementsGate == Gate!Spec
=============================================================================
