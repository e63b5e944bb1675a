------------------------- MODULE HostActionsProofs -------------------------
(***************************************************************************)
(* Proofs about HostActions: its type invariant, and that nothing passes   *)
(* the gate but what was authorised, at most once and on the record.       *)
(***************************************************************************)
EXTENDS HostActions, TLAPS

USE SessionAssumption, KindAssumption, TimeAssumption

\* A row written now is a row of the log.
LEMMA RowType ==
    ASSUME TypeOK, NEW event \in Events, NEW r \in Requests, NEW k \in Keys,
           NEW s \in Sessions, NEW mode \in AccessModes, NEW scope \in Scopes
    PROVE  Row(event, r, k, s, mode, scope) \in Entry
BY DEF TypeOK, Row, Entry

\* The mode a request is judged by is one of the three access modes.
LEMMA ModeType == \A raw \in RawModes : NormalizeMode(raw) \in AccessModes
BY DEF NormalizeMode, RawModes, AccessModes

\* What waits for an answer is a request, and waits for a while.
LEMMA PendingType ==
    ASSUME TypeOK, NEW k \in Keys, pendingApproval[k] # Absent
    PROVE  /\ pendingApproval[k] \in Pending
           /\ pendingApproval[k].req \in Requests
           /\ pendingApproval[k].expires \in Nat
BY DEF TypeOK, Pending

\* A live approval is one that waits.
LEMMA LiveIsPresent ==
    ASSUME TypeOK, NEW k \in Keys, PendingLive(k)
    PROVE  pendingApproval[k] # Absent
BY DEF TypeOK, PendingLive, Absent

\* The action being executed has a request, key, session, mode and start time.
LEMMA RunType ==
    ASSUME TypeOK, run.phase # "idle"
    PROVE  run \in Run
BY DEF TypeOK, IdleRun

\* The parts of the state keep their types: the clock, dictionaries, grants,
\* the action being executed, the log and the effects (TypeOK).
THEOREM TypeCorrect == Spec => []TypeOK
<1>1. Init => TypeOK
  BY DEF Init, TypeOK, Entry
<1>2. TypeOK /\ [Next]_vars => TypeOK'
  <2> SUFFICES ASSUME TypeOK, [Next]_vars PROVE TypeOK'
    OBVIOUS
  <2>1. ASSUME NEW r \in Requests, NEW k \in Keys, NEW s \in Sessions, NEW raw \in RawModes,
               Guard(r, k, s, raw)
        PROVE  TypeOK'
    <3>0. NormalizeMode(raw) \in AccessModes
      BY ModeType
    <3>1. CASE GuardFullAccess(r, k, s, NormalizeMode(raw))
      BY <3>0, <3>1 DEF GuardFullAccess, TypeOK, StartRun, Run
    <3>2. CASE GuardTrusted(r, k, s, NormalizeMode(raw))
      BY <3>0, <3>2 DEF GuardTrusted, TypeOK, StartRun, Run, ForgetExpiredTrust
    <3>3. CASE GuardPending(r, k, s, NormalizeMode(raw))
      <4>1. Row("requested", r, k, s, NormalizeMode(raw), "none") \in Entry
        BY <3>0, RowType DEF Events, Scopes
      <4>2. log' \in Seq(Entry)
        BY <3>3, <4>1 DEF GuardPending, TypeOK
      <4>3. [req |-> r, expires |-> now + ApprovalTTL] \in Pending
        BY DEF Pending, TypeOK
      <4>4. pendingApproval' \in [Keys -> Pending \cup {Absent}]
        BY <3>3, <4>3 DEF GuardPending, TypeOK
      <4> QED BY <3>3, <4>2, <4>4 DEF GuardPending, TypeOK, ForgetExpiredTrust
    <3>4. CASE GuardBlocked(r, k, s, NormalizeMode(raw))
      <4>1. Row("blocked", r, k, s, NormalizeMode(raw), "none") \in Entry
        BY <3>0, RowType DEF Events, Scopes
      <4> QED BY <3>4, <4>1 DEF GuardBlocked, TypeOK
    <3> QED BY <2>1, <3>1, <3>2, <3>3, <3>4 DEF Guard
  <2>2. ASSUME NEW k \in Keys, NEW s \in Sessions, Decide(k, s)
        PROVE  TypeOK'
    <3>0. /\ pendingApproval[k].req \in Requests
          /\ "approve_risky" \in AccessModes
      BY <2>2, LiveIsPresent, PendingType DEF Decide, AccessModes
    <3>1. ClearPending(k) => pendingApproval' \in [Keys -> Pending \cup {Absent}]
      BY DEF ClearPending, TypeOK
    <3>2. CASE Deny(k)
      <4>1. Row("denied", pendingApproval[k].req, k, NoSession, "approve_risky", "none") \in Entry
        BY <3>0, RowType DEF Events, Scopes
      <4> QED BY <3>1, <3>2, <4>1 DEF Deny, TypeOK
    <3>3. CASE Approve(k, s)
      <4>1. Row("approved", pendingApproval[k].req, k, s, "approve_risky", "none") \in Entry
        BY <3>0, RowType DEF Events, Scopes
      <4> QED BY <3>0, <3>1, <3>3, <4>1 DEF Approve, TypeOK, StartRun, Run
    <3>4. CASE TrustConversation(k, s)
      <4>1. Row("trusted", pendingApproval[k].req, k, s, "approve_risky", "conversation") \in Entry
        BY <3>0, RowType DEF Events, Scopes
      <4>2. convTrust' \in [Keys -> [ActionKinds -> Nat]]
        BY <3>0, <3>4 DEF TrustConversation, TypeOK
      <4> QED BY <3>0, <3>1, <3>4, <4>1, <4>2 DEF TrustConversation, TypeOK, StartRun, Run
    <3>5. CASE TrustSession(k, s)
      <4>1. Row("trusted", pendingApproval[k].req, k, s, "approve_risky", "session") \in Entry
        BY <3>0, RowType DEF Events, Scopes
      <4>2. sessTrust' \in [Sessions -> [ActionKinds -> Nat]]
        BY <3>0, <3>5 DEF TrustSession, TypeOK
      <4> QED BY <3>0, <3>1, <3>5, <4>1, <4>2 DEF TrustSession, TypeOK, StartRun, Run
    <3> QED BY <2>2, <3>2, <3>3, <3>4, <3>5 DEF Decide
  <2>3. ASSUME NEW k \in Keys, ForgetExpiredPending(k)
        PROVE  TypeOK'
    BY <2>3 DEF ForgetExpiredPending, ClearPending, TypeOK
  <2>4. CASE Perform
    <3>1. run \in Run
      BY <2>4, RunType DEF Perform
    <3>2. run' \in Run
      BY <2>4, <3>1 DEF Perform, Run
    <3>3. effects' \in [Requests -> Nat]
      BY <2>4, <3>1 DEF Perform, TypeOK, Run
    <3> QED BY <2>4, <3>2, <3>3 DEF Perform, TypeOK
  <2>5. CASE LogOutcome
    <3>1. run \in Run
      BY <2>5, RunType DEF LogOutcome
    <3>2. \A event \in {"executed", "failed"} :
            Row(event, run.req, run.key, run.session, run.mode, "none") \in Entry
      BY <3>1, RowType DEF Events, Scopes, Run
    <3> QED BY <2>5, <3>2 DEF LogOutcome, TypeOK
  <2>6. CASE Tick
    BY <2>6 DEF Tick, TypeOK
  <2>7. CASE Restart
    BY <2>7 DEF Restart, TypeOK
  <2>8. ASSUME NEW r \in Requests, ToolRoute(r)
        PROVE  TypeOK'
    BY <2>8 DEF ToolRoute, TypeOK
  <2>9. CASE UNCHANGED vars
    BY <2>9 DEF vars, TypeOK
  <2> QED BY <2>1, <2>2, <2>3, <2>4, <2>5, <2>6, <2>7, <2>8, <2>9 DEF Next, HostStep
<1> QED BY <1>1, <1>2, PTL DEF Spec
-----------------------------------------------------------------------------
(* What a step does to the log *)

LogExtends ==
    /\ Len(log) <= Len(log')
    /\ \A i \in 1..Len(log) : log'[i] = log[i]

\* Every row beyond the old end of the log is about r.
NewRowsAbout(r) == \A i \in 1..Len(log') : i > Len(log) => log'[i].req = r

\* The log has a length.
LEMMA LogLength == TypeOK => Len(log) \in Nat
BY DEF TypeOK

\* A step that writes no row extends the log trivially.
LEMMA LogUnchanged ==
    ASSUME TypeOK, UNCHANGED log
    PROVE  LogExtends /\ \A r \in Requests : NewRowsAbout(r)
BY LogLength DEF LogExtends, NewRowsAbout

\* A step that writes one row extends the log by a row about its request.
LEMMA LogAppended ==
    ASSUME TypeOK, NEW e \in Entry, log' = Append(log, e)
    PROVE  /\ Len(log') = Len(log) + 1
           /\ log'[Len(log) + 1] = e
           /\ LogExtends
           /\ NewRowsAbout(e.req)
<1>1. Len(log) \in Nat /\ log \in Seq(Entry)
  BY LogLength DEF TypeOK
<1>2. Len(log') = Len(log) + 1
  BY <1>1
<1>3. log'[Len(log) + 1] = e
  BY <1>1
<1>4. \A i \in 1..Len(log) : log'[i] = log[i]
  BY <1>1
<1>5. \A i \in 1..Len(log') : i > Len(log) => i = Len(log) + 1
  BY <1>1, <1>2
<1> QED BY <1>1, <1>2, <1>3, <1>4, <1>5 DEF LogExtends, NewRowsAbout

\* A row of the log has the fields of its type.
LEMMA RowFields ==
    ASSUME TypeOK, NEW i \in 1..Len(log)
    PROVE  log[i] \in Entry
BY LogLength DEF TypeOK

\* The rows of a step that appends one.
LEMMA OldOrNew ==
    ASSUME TypeOK, NEW e \in Entry, log' = Append(log, e)
    PROVE  \A i \in 1..Len(log') :
             \/ i \in 1..Len(log) /\ log'[i] = log[i]
             \/ i = Len(log) + 1 /\ log'[i] = e
<1>1. /\ Len(log) \in Nat
      /\ Len(log') = Len(log) + 1
      /\ log'[Len(log) + 1] = e
      /\ \A i \in 1..Len(log) : log'[i] = log[i]
  BY LogLength, LogAppended DEF LogExtends
<1> QED BY <1>1

-----------------------------------------------------------------------------
(* What a step leaves true of what it does not touch *)

\* What waits and is not r keeps waiting on record when a step is about r.
LEMMA OthersWait ==
    ASSUME TypeOK, TypeOK', PendingOnRecord, LogExtends,
           NEW r \in Requests, NewRowsAbout(r),
           \A j \in Keys : pendingApproval'[j] # Absent /\ pendingApproval'[j].req # r
                             => pendingApproval'[j] = pendingApproval[j],
           \A q \in Requests \ {r} : effects'[q] = effects[q],
           run' = run \/ run'.phase = "idle" \/ run'.req = r \/ run'.req = run.req,
           run.phase = "idle" => run' = run \/ run'.req = r,
           NEW k \in Keys, pendingApproval'[k] # Absent, pendingApproval'[k].req # r
    PROVE  WaitsOnRecord(k)'
<1> DEFINE p == pendingApproval[k].req
<1>1. /\ pendingApproval'[k] = pendingApproval[k]
      /\ pendingApproval[k] # Absent
      /\ p \in Requests \ {r}
  BY PendingType
<1>2. /\ \E q \in 1..Len(log) :
           /\ log[q].event = "requested" /\ log[q].req = p /\ log[q].key = k
           /\ pendingApproval[k].expires = log[q].at + ApprovalTTL
      /\ \A i \in 1..Len(log) : log[i].req = p => log[i].event = "requested"
      /\ effects[p] = 0
      /\ run.phase # "idle" => run.req # p
      /\ \A j \in Keys : pendingApproval[j] # Absent /\ pendingApproval[j].req = p => j = k
  BY <1>1 DEF PendingOnRecord, WaitsOnRecord
<1>3. Len(log) \in Nat /\ Len(log') \in Nat
  BY LogLength DEF TypeOK
<1>4. \E q \in 1..Len(log') :
        /\ log'[q].event = "requested" /\ log'[q].req = p /\ log'[q].key = k
        /\ pendingApproval'[k].expires = log'[q].at + ApprovalTTL
  BY <1>1, <1>2, <1>3 DEF LogExtends
<1>5. ASSUME NEW i \in 1..Len(log'), log'[i].req = p
      PROVE  log'[i].event = "requested"
  <2>1. i \in 1..Len(log) /\ log'[i] = log[i]
    BY <1>1, <1>3, <1>5 DEF NewRowsAbout, LogExtends
  <2> QED BY <1>2, <1>5, <2>1
<1>6. effects'[p] = 0
  BY <1>1, <1>2
<1>7. run'.phase # "idle" => run'.req # p
  BY <1>1, <1>2
<1>8. \A j \in Keys : pendingApproval'[j] # Absent /\ pendingApproval'[j].req = p => j = k
  BY <1>1, <1>2
<1> HIDE DEF p
<1> QED BY <1>1, <1>4, <1>5, <1>6, <1>7, <1>8 DEF p, WaitsOnRecord

\* Grants that are kept or forgotten stay on record.
LEMMA GrantsKept ==
    ASSUME TypeOK, TypeOK', TrustOnRecord, LogExtends,
           \A k \in Keys, a \in ActionKinds : convTrust'[k][a] \in {0, convTrust[k][a]},
           \A s \in Sessions, a \in ActionKinds : sessTrust'[s][a] \in {0, sessTrust[s][a]}
    PROVE  TrustOnRecord'
<1>1. Len(log) \in Nat /\ Len(log') \in Nat
  BY LogLength DEF TypeOK
<1>2. \A i \in 1..Len(log) : i \in 1..Len(log') /\ log'[i] = log[i]
  BY <1>1 DEF LogExtends
<1>3. ASSUME NEW a \in ActionKinds, NEW k \in Keys, convTrust'[k][a] > 0
      PROVE  \E t \in 1..Len(log') :
                 /\ log'[t].event = "trusted" /\ log'[t].scope = "conversation"
                 /\ log'[t].key = k /\ KindOf[log'[t].req] = a
                 /\ convTrust'[k][a] = log'[t].at + TrustTTL
  <2>1. convTrust'[k][a] = convTrust[k][a]
    BY <1>3
  <2>2. PICK t \in 1..Len(log) :
          /\ log[t].event = "trusted" /\ log[t].scope = "conversation"
          /\ log[t].key = k /\ KindOf[log[t].req] = a
          /\ convTrust[k][a] = log[t].at + TrustTTL
    BY <1>3, <2>1 DEF TrustOnRecord
  <2> QED BY <1>2, <2>1, <2>2
<1>4. ASSUME NEW a \in ActionKinds, NEW s \in Sessions, sessTrust'[s][a] > 0
      PROVE  \E t \in 1..Len(log') :
                 /\ log'[t].event = "trusted" /\ log'[t].scope = "session"
                 /\ log'[t].session = s /\ KindOf[log'[t].req] = a
                 /\ sessTrust'[s][a] = log'[t].at + TrustTTL
  <2>1. sessTrust'[s][a] = sessTrust[s][a]
    BY <1>4
  <2>2. PICK t \in 1..Len(log) :
          /\ log[t].event = "trusted" /\ log[t].scope = "session"
          /\ log[t].session = s /\ KindOf[log[t].req] = a
          /\ sessTrust[s][a] = log[t].at + TrustTTL
    BY <1>4, <2>1 DEF TrustOnRecord
  <2> QED BY <1>2, <2>1, <2>2
<1> QED BY <1>3, <1>4 DEF TrustOnRecord

\* ForgetExpiredTrust only forgets.
LEMMA ForgetOnly ==
    ASSUME TypeOK, NEW k \in Keys, NEW s \in Sessions, NEW kind \in ActionKinds,
           ForgetExpiredTrust(k, s, kind)
    PROVE  /\ \A j \in Keys, a \in ActionKinds : convTrust'[j][a] \in {0, convTrust[j][a]}
           /\ \A j \in Sessions, a \in ActionKinds : sessTrust'[j][a] \in {0, sessTrust[j][a]}
BY DEF ForgetExpiredTrust, TypeOK

\* An action that goes on running stays authorised.
LEMMA StaysAuthorised ==
    ASSUME TypeOK, TypeOK', RunAuthorised, LogExtends, run.phase # "idle",
           /\ run'.req = run.req /\ run'.key = run.key /\ run'.session = run.session
           /\ run'.mode = run.mode /\ run'.since = run.since
    PROVE  RunAuthorised'
<1>1. Len(log) \in Nat /\ Len(log') \in Nat
  BY LogLength DEF TypeOK
<1>2. \A i \in 1..Len(log) : i \in 1..Len(log') /\ log'[i] = log[i]
  BY <1>1 DEF LogExtends
<1>3. CASE run.mode = "full_access"
  BY <1>3 DEF RunAuthorised, Authorised
<1>4. CASE DecidedOnCard(run)
  BY <1>2, <1>4 DEF RunAuthorised, Authorised, DecidedOnCard
<1>5. CASE CoveredByTrust(run)
  <2>1. CoveredByTrust(run)'
    BY <1>2, <1>5 DEF CoveredByTrust
  <2> QED BY <2>1 DEF RunAuthorised, Authorised
<1> QED BY <1>3, <1>4, <1>5 DEF RunAuthorised, Authorised

\* One more row keeps the audit trail in order if no earlier row of its
\* request forbids it.
LEMMA TrailKept ==
    ASSUME TypeOK, AuditTrail, NEW e \in Entry, log' = Append(log, e),
           \A i \in 1..Len(log) : log[i].req = e.req =>
             /\ ~(log[i].event \in Verdicts /\ e.event \in Verdicts)
             /\ log[i].event \notin Outcomes
             /\ e.event # "requested"
    PROVE  AuditTrail'
<1> SUFFICES ASSUME NEW i \in 1..Len(log'), NEW j \in 1..Len(log'),
                    log'[i].req = log'[j].req, i < j
             PROVE  /\ ~(log'[i].event \in Verdicts /\ log'[j].event \in Verdicts)
                    /\ ~(log'[i].event \in Outcomes)
                    /\ log'[j].event # "requested"
  BY DEF AuditTrail
<1>1. Len(log) \in Nat
  BY LogLength
<1>2. /\ i \in 1..Len(log) /\ log'[i] = log[i]
      /\ \/ j \in 1..Len(log) /\ log'[j] = log[j]
         \/ log'[j] = e
  BY <1>1, OldOrNew
<1> QED BY <1>2 DEF AuditTrail
-----------------------------------------------------------------------------
(* What rows say of a request, before and after a step *)

\* A step that writes no row changes nothing the log says of a request.
LEMMA RowsSame ==
    ASSUME UNCHANGED log
    PROVE  \A r \in Requests : \A events \in SUBSET Events :
             HasRow(r, events)' <=> HasRow(r, events)
BY DEF HasRow, RowsOf

\* A new row adds its event to what the log says of its request, and to nothing
\* else.
LEMMA RowsMore ==
    ASSUME TypeOK, NEW e \in Entry, log' = Append(log, e)
    PROVE  \A r \in Requests : \A events \in SUBSET Events :
             HasRow(r, events)' <=> HasRow(r, events) \/ (e.req = r /\ e.event \in events)
<1> SUFFICES ASSUME NEW r \in Requests, NEW events \in SUBSET Events
             PROVE  HasRow(r, events)' <=> HasRow(r, events) \/ (e.req = r /\ e.event \in events)
  OBVIOUS
<1>1. Len(log) \in Nat /\ Len(log') = Len(log) + 1 /\ log'[Len(log) + 1] = e
  BY LogLength, LogAppended
<1>2. \A i \in 1..Len(log) : i \in 1..Len(log') /\ log'[i] = log[i]
  BY <1>1, LogAppended DEF LogExtends
<1>3. HasRow(r, events)' => HasRow(r, events) \/ (e.req = r /\ e.event \in events)
  <2> SUFFICES ASSUME NEW i \in 1..Len(log'), log'[i].req = r, log'[i].event \in events
               PROVE  HasRow(r, events) \/ (e.req = r /\ e.event \in events)
    BY DEF HasRow, RowsOf
  <2> QED BY OldOrNew DEF HasRow, RowsOf
<1>4. HasRow(r, events) => HasRow(r, events)'
  BY <1>2 DEF HasRow, RowsOf
<1>5. e.req = r /\ e.event \in events => HasRow(r, events)'
  BY <1>1 DEF HasRow, RowsOf
<1> QED BY <1>3, <1>4, <1>5

\* The sets of events that the invariant speaks of.
LEMMA SomeEvents ==
    /\ {"requested"} \in SUBSET Events
    /\ {"approved", "trusted"} \in SUBSET Events
    /\ {"denied", "blocked"} \in SUBSET Events
BY DEF Events

\* A request nobody asked for yet waits nowhere and has no row.
LEMMA FreshIsNew ==
    ASSUME TypeOK, PendingOnRecord, NEW r \in Requests, Fresh(r)
    PROVE  /\ \A k \in Keys : pendingApproval[k] # Absent => pendingApproval[k].req # r
           /\ \A i \in 1..Len(log) : log[i].req # r
           /\ \A events \in SUBSET Events : ~HasRow(r, events)
           /\ effects[r] = 0
BY DEF Fresh, PendingOnRecord, WaitsOnRecord, HasRow, RowsOf

\* A live grant covers an action of its kind that starts now.
LEMMA LiveGrantCovers ==
    ASSUME TypeOK, TypeOK', TrustOnRecord, UNCHANGED <<log, now>>,
           NEW r \in Requests, NEW k \in Keys, NEW s \in Sessions, NEW mode \in AccessModes,
           TrustLive(k, s, KindOf[r]), StartRun(r, k, s, mode)
    PROVE  CoveredByTrust(run)'
<1> DEFINE kind == KindOf[r]
<1>0. kind \in ActionKinds /\ now \in Nat
  BY DEF TypeOK
<1>1. run'.req = r /\ run'.key = k /\ run'.session = s /\ run'.since = now
  BY DEF StartRun
<1>2. CASE convTrust[k][kind] > now
  <2>1. convTrust[k][kind] \in Nat /\ convTrust[k][kind] > 0
    BY <1>0, <1>2 DEF TypeOK
  <2>2. PICK t \in 1..Len(log) :
          /\ log[t].event = "trusted" /\ log[t].scope = "conversation"
          /\ log[t].key = k /\ KindOf[log[t].req] = kind
          /\ convTrust[k][kind] = log[t].at + TrustTTL
    BY <1>0, <2>1 DEF TrustOnRecord
  <2>3. now < log[t].at + TrustTTL
    BY <1>0, <1>2, <2>1, <2>2
  <2> QED BY <1>1, <2>2, <2>3 DEF CoveredByTrust
<1>3. CASE sessTrust[s][kind] > now
  <2>1. sessTrust[s][kind] \in Nat /\ sessTrust[s][kind] > 0
    BY <1>0, <1>3 DEF TypeOK
  <2>2. PICK t \in 1..Len(log) :
          /\ log[t].event = "trusted" /\ log[t].scope = "session"
          /\ log[t].session = s /\ KindOf[log[t].req] = kind
          /\ sessTrust[s][kind] = log[t].at + TrustTTL
    BY <1>0, <2>1 DEF TrustOnRecord
  <2>3. now < log[t].at + TrustTTL
    BY <1>0, <1>3, <2>1, <2>2
  <2> QED BY <1>1, <2>2, <2>3 DEF CoveredByTrust
<1> QED BY <1>2, <1>3 DEF TrustLive

-----------------------------------------------------------------------------
(* A client asks: each way through the guard keeps the invariant *)

\* Starting a fresh request that is authorised keeps the invariant.
LEMMA StartsFresh ==
    ASSUME TypeOK, TypeOK', SafetyInv, UNCHANGED <<now, pendingApproval, log, effects>>,
           \A k \in Keys, a \in ActionKinds : convTrust'[k][a] \in {0, convTrust[k][a]},
           \A s \in Sessions, a \in ActionKinds : sessTrust'[s][a] \in {0, sessTrust[s][a]},
           run.phase = "idle",
           NEW r \in Requests, NEW k \in Keys, NEW s \in Sessions, NEW mode \in AccessModes,
           Fresh(r), StartRun(r, k, s, mode),
           mode = "full_access" \/ CoveredByTrust(run)'
    PROVE  SafetyInv'
<1> USE DEF SafetyInv
<1>1. /\ LogExtends /\ NewRowsAbout(r)
      /\ run'.req = r /\ run'.phase = "started" /\ run'.mode = mode
  BY LogUnchanged DEF StartRun
<1>2. RunAuthorised'
  BY <1>1 DEF RunAuthorised, Authorised
<1>3. AtMostOnce' /\ EffectOnRecord'
  BY SomeEvents, RowsSame DEF AtMostOnce, EffectOnRecord
<1>4. AuditTrail'
  BY DEF AuditTrail
<1>5. PendingOnRecord'
  <2> SUFFICES ASSUME NEW j \in Keys, pendingApproval'[j] # Absent
               PROVE  WaitsOnRecord(j)'
    BY DEF PendingOnRecord
  <2>1. pendingApproval'[j].req # r
    BY FreshIsNew
  <2> QED BY <1>1, <2>1, OthersWait
<1>6. TrustOnRecord'
  BY <1>1, GrantsKept
<1>7. RunOnRecord'
  BY <1>1, SomeEvents, RowsSame, FreshIsNew DEF RunOnRecord
<1> QED BY <1>2, <1>3, <1>4, <1>5, <1>6, <1>7

\* Under full access.
LEMMA FullAccessSafe ==
    ASSUME TypeOK, TypeOK', SafetyInv, run.phase = "idle",
           NEW r \in Requests, NEW k \in Keys, NEW s \in Sessions, NEW mode \in AccessModes,
           Fresh(r), GuardFullAccess(r, k, s, mode)
    PROVE  SafetyInv'
BY StartsFresh DEF GuardFullAccess, TypeOK

\* Under a live grant.
LEMMA TrustedSafe ==
    ASSUME TypeOK, TypeOK', SafetyInv, run.phase = "idle",
           NEW r \in Requests, NEW k \in Keys, NEW s \in Sessions, NEW mode \in AccessModes,
           Fresh(r), GuardTrusted(r, k, s, mode)
    PROVE  SafetyInv'
<1>1. KindOf[r] \in ActionKinds
  OBVIOUS
<1>2. CoveredByTrust(run)'
  BY LiveGrantCovers DEF GuardTrusted, SafetyInv
<1>3. /\ \A j \in Keys, a \in ActionKinds : convTrust'[j][a] \in {0, convTrust[j][a]}
      /\ \A j \in Sessions, a \in ActionKinds : sessTrust'[j][a] \in {0, sessTrust[j][a]}
  BY <1>1, ForgetOnly DEF GuardTrusted
<1> QED BY <1>2, <1>3, StartsFresh DEF GuardTrusted

\* Both ways of only writing a row about a fresh request.
LEMMA RowOfFresh ==
    ASSUME TypeOK, TypeOK', SafetyInv, UNCHANGED <<now, run, effects>>,
           \A k \in Keys, a \in ActionKinds : convTrust'[k][a] \in {0, convTrust[k][a]},
           \A s \in Sessions, a \in ActionKinds : sessTrust'[s][a] \in {0, sessTrust[s][a]},
           run.phase = "idle",
           NEW e \in Entry, e.event \in {"requested", "blocked"}, log' = Append(log, e),
           Fresh(e.req), PendingOnRecord'
    PROVE  SafetyInv'
<1> USE DEF SafetyInv
<1>1. LogExtends /\ e.req \in Requests
  BY LogAppended DEF Entry
<1>2. RunAuthorised' /\ RunOnRecord'
  BY DEF RunAuthorised, RunOnRecord
<1>3. AtMostOnce'
  BY <1>1, SomeEvents, RowsMore, FreshIsNew DEF AtMostOnce
<1>4. AuditTrail'
  BY <1>1, TrailKept, FreshIsNew
<1>5. EffectOnRecord'
  BY <1>1, SomeEvents, RowsMore, FreshIsNew DEF EffectOnRecord
<1>6. TrustOnRecord'
  BY <1>1, GrantsKept
<1> QED BY <1>2, <1>3, <1>4, <1>5, <1>6

\* Put on a card.
LEMMA PendingSafe ==
    ASSUME TypeOK, TypeOK', SafetyInv, run.phase = "idle",
           NEW r \in Requests, NEW k \in Keys, NEW s \in Sessions, NEW mode \in AccessModes,
           Fresh(r), GuardPending(r, k, s, mode)
    PROVE  SafetyInv'
<1> DEFINE e == Row("requested", r, k, s, mode, "none")
<1>1. /\ e \in Entry /\ log' = Append(log, e)
      /\ e.event = "requested" /\ e.req = r /\ e.key = k /\ e.at = now
  BY RowType DEF GuardPending, Events, Scopes, Row
<1>2. /\ \A j \in Keys, a \in ActionKinds : convTrust'[j][a] \in {0, convTrust[j][a]}
      /\ \A j \in Sessions, a \in ActionKinds : sessTrust'[j][a] \in {0, sessTrust[j][a]}
  BY ForgetOnly DEF GuardPending
<1>3. /\ LogExtends /\ NewRowsAbout(r)
      /\ Len(log) \in Nat /\ Len(log') = Len(log) + 1 /\ log'[Len(log) + 1] = e
  BY <1>1, LogAppended, LogLength
<1>4. /\ pendingApproval'[k] = [req |-> r, expires |-> now + ApprovalTTL]
      /\ \A j \in Keys \ {k} : pendingApproval'[j] = pendingApproval[j]
  BY DEF GuardPending, TypeOK
<1>5. \A j \in Keys \ {k} : pendingApproval'[j] # Absent => pendingApproval'[j].req # r
  BY <1>4, FreshIsNew DEF SafetyInv
<1>6. PendingOnRecord'
  <2> SUFFICES ASSUME NEW j \in Keys, pendingApproval'[j] # Absent
               PROVE  WaitsOnRecord(j)'
    BY DEF PendingOnRecord
  <2>1. CASE j = k
    <3>1. \E q \in 1..Len(log') :
            /\ log'[q].event = "requested" /\ log'[q].req = r /\ log'[q].key = k
            /\ pendingApproval'[k].expires = log'[q].at + ApprovalTTL
      BY <1>1, <1>3, <1>4
    <3>2. \A i \in 1..Len(log') : log'[i].req = r => log'[i].event = "requested"
      BY <1>1, <1>3, OldOrNew, FreshIsNew DEF SafetyInv
    <3>3. effects'[r] = 0 /\ run'.phase = "idle"
      BY FreshIsNew DEF GuardPending, SafetyInv
    <3>4. \A i \in Keys : pendingApproval'[i] # Absent /\ pendingApproval'[i].req = r => i = k
      BY <1>5
    <3>5. pendingApproval'[k].req = r
      BY <1>4
    <3> HIDE DEF e
    <3> QED BY <2>1, <3>1, <3>2, <3>3, <3>4, <3>5 DEF WaitsOnRecord
  <2>2. CASE j # k
    <3>1. pendingApproval'[j].req # r
      BY <1>5, <2>2
    <3>2. \A i \in Keys : pendingApproval'[i] # Absent /\ pendingApproval'[i].req # r
                             => pendingApproval'[i] = pendingApproval[i]
      BY <1>4
    <3> QED BY <1>3, <3>1, <3>2, OthersWait DEF GuardPending, SafetyInv
  <2> QED BY <2>1, <2>2
<1> HIDE DEF e
<1> QED BY <1>1, <1>2, <1>6, RowOfFresh DEF GuardPending

\* Turned away.
LEMMA BlockedSafe ==
    ASSUME TypeOK, TypeOK', SafetyInv, run.phase = "idle",
           NEW r \in Requests, NEW k \in Keys, NEW s \in Sessions, NEW mode \in AccessModes,
           Fresh(r), GuardBlocked(r, k, s, mode)
    PROVE  SafetyInv'
<1> DEFINE e == Row("blocked", r, k, s, mode, "none")
<1>1. e \in Entry /\ log' = Append(log, e) /\ e.event = "blocked" /\ e.req = r
  BY RowType DEF GuardBlocked, Events, Scopes, Row
<1>2. LogExtends /\ NewRowsAbout(r)
  BY <1>1, LogAppended
<1>3. PendingOnRecord'
  <2> SUFFICES ASSUME NEW j \in Keys, pendingApproval'[j] # Absent
               PROVE  WaitsOnRecord(j)'
    BY DEF PendingOnRecord
  <2>1. pendingApproval'[j].req # r
    BY FreshIsNew DEF GuardBlocked, SafetyInv
  <2> QED BY <1>2, <2>1, OthersWait DEF GuardBlocked, SafetyInv
<1> HIDE DEF e
<1> QED BY <1>1, <1>3, RowOfFresh DEF GuardBlocked, TypeOK
-----------------------------------------------------------------------------
(* A client answers: each answer keeps the invariant *)

\* Clearing a conversation's approval touches no other conversation, and the
\* request it held waits nowhere any more.
LEMMA ClearedOnly ==
    ASSUME TypeOK, PendingOnRecord, NEW k \in Keys, pendingApproval[k] # Absent, ClearPending(k)
    PROVE  /\ \A j \in Keys : pendingApproval'[j] # Absent => pendingApproval'[j] = pendingApproval[j]
           /\ \A j \in Keys : pendingApproval'[j] # Absent => pendingApproval'[j].req # pendingApproval[k].req
<1>1. /\ pendingApproval'[k] = Absent
      /\ \A j \in Keys \ {k} : pendingApproval'[j] = pendingApproval[j]
  BY DEF ClearPending, TypeOK
<1>2. \A j \in Keys : pendingApproval[j] # Absent /\ pendingApproval[j].req = pendingApproval[k].req => j = k
  BY DEF PendingOnRecord, WaitsOnRecord
<1> QED BY <1>1, <1>2

\* What the log says of a request that waits for an answer.
LEMMA WaitingRows ==
    ASSUME TypeOK, PendingOnRecord, NEW k \in Keys, pendingApproval[k] # Absent
    PROVE  LET r == pendingApproval[k].req
           IN  /\ r \in Requests
               /\ \A i \in 1..Len(log) : log[i].req = r => log[i].event = "requested"
               /\ effects[r] = 0
               /\ \E q \in 1..Len(log) :
                    /\ log[q].event = "requested" /\ log[q].req = r /\ log[q].key = k
                    /\ pendingApproval[k].expires = log[q].at + ApprovalTTL
BY PendingType DEF PendingOnRecord, WaitsOnRecord

\* Starting what waited, with its verdict just logged, keeps the invariant.
LEMMA AnswerSafe ==
    ASSUME TypeOK, TypeOK', SafetyInv, run.phase = "idle", UNCHANGED <<now, effects>>,
           NEW k \in Keys, NEW s \in Sessions, PendingLive(k), ClearPending(k),
           StartRun(pendingApproval[k].req, k, s, "approve_risky"),
           NEW e \in Entry, log' = Append(log, e), e.event \in {"approved", "trusted"},
           e.req = pendingApproval[k].req, e.key = k, e.at = now,
           TrustOnRecord'
    PROVE  SafetyInv'
<1> USE DEF SafetyInv
<1> DEFINE r == pendingApproval[k].req
<1>1. /\ pendingApproval[k] # Absent /\ r \in Requests
      /\ pendingApproval[k].expires \in Nat /\ now \in Nat
      /\ now < pendingApproval[k].expires
  BY LiveIsPresent, PendingType DEF PendingLive, TypeOK
<1>2. /\ LogExtends /\ NewRowsAbout(r)
      /\ Len(log) \in Nat /\ Len(log') = Len(log) + 1 /\ log'[Len(log) + 1] = e
  BY LogAppended, LogLength
<1>3. /\ \A i \in 1..Len(log) : log[i].req = r => log[i].event = "requested"
      /\ effects[r] = 0
  BY <1>1, WaitingRows
<1>4. /\ run'.req = r /\ run'.key = k /\ run'.since = now
      /\ run'.phase = "started" /\ run'.mode = "approve_risky"
  BY DEF StartRun
<1>5. RunAuthorised'
  <2>1. PICK q \in 1..Len(log) :
          /\ log[q].event = "requested" /\ log[q].req = r /\ log[q].key = k
          /\ pendingApproval[k].expires = log[q].at + ApprovalTTL
    BY <1>1, WaitingRows
  <2>2. /\ Len(log) + 1 \in 1..Len(log')
        /\ q \in 1..((Len(log) + 1) - 1)
        /\ log'[q] = log[q]
    BY <1>2 DEF LogExtends
  <2>3. /\ log'[Len(log) + 1].event \in {"approved", "trusted"}
        /\ log'[Len(log) + 1].req = run'.req /\ log'[Len(log) + 1].key = run'.key
        /\ log'[Len(log) + 1].at = run'.since
        /\ log'[q].event = "requested" /\ log'[q].req = run'.req /\ log'[q].key = run'.key
        /\ log'[Len(log) + 1].at < log'[q].at + ApprovalTTL
    BY <1>1, <1>2, <1>4, <2>1, <2>2
  <2>4. DecidedOnCard(run)'
    BY <2>2, <2>3 DEF DecidedOnCard
  <2> QED BY <2>4 DEF RunAuthorised, Authorised
<1>6. AtMostOnce'
  BY SomeEvents, RowsMore DEF AtMostOnce
<1>7. AuditTrail'
  BY <1>3, TrailKept DEF Verdicts, Outcomes
<1>8. EffectOnRecord'
  BY SomeEvents, RowsMore DEF EffectOnRecord
<1>9. PendingOnRecord'
  <2> SUFFICES ASSUME NEW j \in Keys, pendingApproval'[j] # Absent
               PROVE  WaitsOnRecord(j)'
    BY DEF PendingOnRecord
  <2>1. /\ pendingApproval'[j].req # r
        /\ \A i \in Keys : pendingApproval'[i] # Absent /\ pendingApproval'[i].req # r
                             => pendingApproval'[i] = pendingApproval[i]
    BY <1>1, ClearedOnly
  <2> HIDE DEF r
  <2> QED BY <1>1, <1>2, <1>4, <2>1, OthersWait
<1>10. RunOnRecord'
  <2>1. \A i \in 1..Len(log') : log'[i].req = r => log'[i].event \in {"requested", "approved", "trusted"}
    BY <1>2, <1>3, OldOrNew
  <2>2. HasRow(e.req, {"approved", "trusted"})'
    BY <1>1, SomeEvents, RowsMore
  <2>3. effects'[r] = 0
    BY <1>3
  <2>4. r = e.req
    OBVIOUS
  <2> HIDE DEF r
  <2> QED BY <1>4, <2>1, <2>2, <2>3, <2>4 DEF RunOnRecord
<1> QED BY <1>5, <1>6, <1>7, <1>8, <1>9, <1>10

\* Approved once.
LEMMA ApproveSafe ==
    ASSUME TypeOK, TypeOK', SafetyInv, run.phase = "idle",
           NEW k \in Keys, NEW s \in Sessions, PendingLive(k), Approve(k, s)
    PROVE  SafetyInv'
<1> DEFINE e == Row("approved", pendingApproval[k].req, k, s, "approve_risky", "none")
<1>1. /\ e \in Entry /\ log' = Append(log, e) /\ e.event = "approved"
      /\ e.req = pendingApproval[k].req /\ e.key = k /\ e.at = now
  BY LiveIsPresent, PendingType, RowType DEF Approve, Events, Scopes, AccessModes, Row
<1>2. LogExtends
  BY <1>1, LogAppended
<1>3. TrustOnRecord'
  BY <1>2, GrantsKept DEF Approve, SafetyInv
<1> HIDE DEF e
<1> QED BY <1>1, <1>3, AnswerSafe DEF Approve

\* Approved with a grant to the conversation.
LEMMA TrustConversationSafe ==
    ASSUME TypeOK, TypeOK', SafetyInv, run.phase = "idle",
           NEW k \in Keys, NEW s \in Sessions, PendingLive(k), TrustConversation(k, s)
    PROVE  SafetyInv'
<1> DEFINE r == pendingApproval[k].req
           e == Row("trusted", r, k, s, "approve_risky", "conversation")
<1>1. /\ e \in Entry /\ log' = Append(log, e) /\ e.event = "trusted" /\ e.scope = "conversation"
      /\ e.req = r /\ e.key = k /\ e.at = now /\ r \in Requests
  BY LiveIsPresent, PendingType, RowType DEF TrustConversation, Events, Scopes, AccessModes, Row
<1>2. /\ LogExtends
      /\ Len(log) \in Nat /\ Len(log') = Len(log) + 1 /\ log'[Len(log) + 1] = e
  BY <1>1, LogAppended, LogLength
<1>3. \A i \in 1..Len(log) : i \in 1..Len(log') /\ log'[i] = log[i]
  BY <1>2 DEF LogExtends
<1>4. TrustOnRecord'
  <2>1. ASSUME NEW a \in ActionKinds, NEW j \in Keys, convTrust'[j][a] > 0
        PROVE  \E t \in 1..Len(log') :
                 /\ log'[t].event = "trusted" /\ log'[t].scope = "conversation"
                 /\ log'[t].key = j /\ KindOf[log'[t].req] = a
                 /\ convTrust'[j][a] = log'[t].at + TrustTTL
    <3>1. CASE j = k /\ a = KindOf[r]
      <4>1. convTrust'[j][a] = now + TrustTTL
        BY <3>1 DEF TrustConversation, TypeOK
      <4> HIDE DEF e
      <4> QED BY <1>1, <1>2, <3>1, <4>1
    <3>2. CASE ~(j = k /\ a = KindOf[r])
      <4>1. convTrust'[j][a] = convTrust[j][a]
        BY <1>1, <3>2 DEF TrustConversation, TypeOK
      <4>2. PICK t \in 1..Len(log) :
              /\ log[t].event = "trusted" /\ log[t].scope = "conversation"
              /\ log[t].key = j /\ KindOf[log[t].req] = a
              /\ convTrust[j][a] = log[t].at + TrustTTL
        BY <2>1, <4>1 DEF SafetyInv, TrustOnRecord
      <4> QED BY <1>3, <4>1, <4>2
    <3> QED BY <3>1, <3>2
  <2>2. ASSUME NEW a \in ActionKinds, NEW j \in Sessions, sessTrust'[j][a] > 0
        PROVE  \E t \in 1..Len(log') :
                 /\ log'[t].event = "trusted" /\ log'[t].scope = "session"
                 /\ log'[t].session = j /\ KindOf[log'[t].req] = a
                 /\ sessTrust'[j][a] = log'[t].at + TrustTTL
    <3>1. sessTrust'[j][a] = sessTrust[j][a]
      BY DEF TrustConversation
    <3>2. PICK t \in 1..Len(log) :
            /\ log[t].event = "trusted" /\ log[t].scope = "session"
            /\ log[t].session = j /\ KindOf[log[t].req] = a
            /\ sessTrust[j][a] = log[t].at + TrustTTL
      BY <2>2, <3>1 DEF SafetyInv, TrustOnRecord
    <3> QED BY <1>3, <3>1, <3>2
  <2> QED BY <2>1, <2>2 DEF TrustOnRecord
<1> HIDE DEF e, r
<1>5. e.req = pendingApproval[k].req /\ StartRun(pendingApproval[k].req, k, s, "approve_risky")
  BY <1>1 DEF r, TrustConversation
<1> QED BY <1>1, <1>4, <1>5, AnswerSafe DEF TrustConversation

\* Approved with a grant to the session.
LEMMA TrustSessionSafe ==
    ASSUME TypeOK, TypeOK', SafetyInv, run.phase = "idle",
           NEW k \in Keys, NEW s \in Sessions, PendingLive(k), TrustSession(k, s)
    PROVE  SafetyInv'
<1> DEFINE r == pendingApproval[k].req
           e == Row("trusted", r, k, s, "approve_risky", "session")
<1>1. /\ e \in Entry /\ log' = Append(log, e) /\ e.event = "trusted" /\ e.scope = "session"
      /\ e.req = r /\ e.key = k /\ e.session = s /\ e.at = now /\ r \in Requests
  BY LiveIsPresent, PendingType, RowType DEF TrustSession, Events, Scopes, AccessModes, Row
<1>2. /\ LogExtends
      /\ Len(log) \in Nat /\ Len(log') = Len(log) + 1 /\ log'[Len(log) + 1] = e
  BY <1>1, LogAppended, LogLength
<1>3. \A i \in 1..Len(log) : i \in 1..Len(log') /\ log'[i] = log[i]
  BY <1>2 DEF LogExtends
<1>4. TrustOnRecord'
  <2>1. ASSUME NEW a \in ActionKinds, NEW j \in Sessions, sessTrust'[j][a] > 0
        PROVE  \E t \in 1..Len(log') :
                 /\ log'[t].event = "trusted" /\ log'[t].scope = "session"
                 /\ log'[t].session = j /\ KindOf[log'[t].req] = a
                 /\ sessTrust'[j][a] = log'[t].at + TrustTTL
    <3>1. CASE j = s /\ a = KindOf[r]
      <4>1. sessTrust'[j][a] = now + TrustTTL
        BY <3>1 DEF TrustSession, TypeOK
      <4> HIDE DEF e
      <4> QED BY <1>1, <1>2, <3>1, <4>1
    <3>2. CASE ~(j = s /\ a = KindOf[r])
      <4>1. sessTrust'[j][a] = sessTrust[j][a]
        BY <1>1, <3>2 DEF TrustSession, TypeOK
      <4>2. PICK t \in 1..Len(log) :
              /\ log[t].event = "trusted" /\ log[t].scope = "session"
              /\ log[t].session = j /\ KindOf[log[t].req] = a
              /\ sessTrust[j][a] = log[t].at + TrustTTL
        BY <2>1, <4>1 DEF SafetyInv, TrustOnRecord
      <4> QED BY <1>3, <4>1, <4>2
    <3> QED BY <3>1, <3>2
  <2>2. ASSUME NEW a \in ActionKinds, NEW j \in Keys, convTrust'[j][a] > 0
        PROVE  \E t \in 1..Len(log') :
                 /\ log'[t].event = "trusted" /\ log'[t].scope = "conversation"
                 /\ log'[t].key = j /\ KindOf[log'[t].req] = a
                 /\ convTrust'[j][a] = log'[t].at + TrustTTL
    <3>1. convTrust'[j][a] = convTrust[j][a]
      BY DEF TrustSession
    <3>2. PICK t \in 1..Len(log) :
            /\ log[t].event = "trusted" /\ log[t].scope = "conversation"
            /\ log[t].key = j /\ KindOf[log[t].req] = a
            /\ convTrust[j][a] = log[t].at + TrustTTL
      BY <2>2, <3>1 DEF SafetyInv, TrustOnRecord
    <3> QED BY <1>3, <3>1, <3>2
  <2> QED BY <2>1, <2>2 DEF TrustOnRecord
<1> HIDE DEF e, r
<1>5. e.req = pendingApproval[k].req /\ StartRun(pendingApproval[k].req, k, s, "approve_risky")
  BY <1>1 DEF r, TrustSession
<1> QED BY <1>1, <1>4, <1>5, AnswerSafe DEF TrustSession

\* Denied.
LEMMA DenySafe ==
    ASSUME TypeOK, TypeOK', SafetyInv, run.phase = "idle",
           NEW k \in Keys, PendingLive(k), Deny(k)
    PROVE  SafetyInv'
<1> USE DEF SafetyInv
<1> DEFINE r == pendingApproval[k].req
           e == Row("denied", r, k, NoSession, "approve_risky", "none")
<1>1. /\ pendingApproval[k] # Absent /\ r \in Requests
      /\ e \in Entry /\ log' = Append(log, e) /\ e.event = "denied" /\ e.req = r
  BY LiveIsPresent, PendingType, RowType DEF Deny, Events, Scopes, AccessModes, Row
<1>2. LogExtends /\ NewRowsAbout(r)
  BY <1>1, LogAppended
<1>3. /\ \A i \in 1..Len(log) : log[i].req = r => log[i].event = "requested"
      /\ effects[r] = 0
  BY <1>1, WaitingRows
<1>4. RunAuthorised' /\ RunOnRecord'
  BY DEF Deny, RunAuthorised, RunOnRecord
<1>5. AtMostOnce'
  BY <1>1, <1>3, SomeEvents, RowsMore DEF AtMostOnce, Deny
<1>6. AuditTrail'
  BY <1>1, <1>3, TrailKept DEF Verdicts, Outcomes
<1>7. EffectOnRecord'
  BY <1>1, SomeEvents, RowsMore DEF EffectOnRecord, Deny
<1>8. PendingOnRecord'
  <2> SUFFICES ASSUME NEW j \in Keys, pendingApproval'[j] # Absent
               PROVE  WaitsOnRecord(j)'
    BY DEF PendingOnRecord
  <2>1. /\ pendingApproval'[j].req # r
        /\ \A i \in Keys : pendingApproval'[i] # Absent /\ pendingApproval'[i].req # r
                             => pendingApproval'[i] = pendingApproval[i]
    BY <1>1, ClearedOnly DEF Deny
  <2> HIDE DEF r
  <2> QED BY <1>1, <1>2, <2>1, OthersWait DEF Deny
<1>9. TrustOnRecord'
  BY <1>2, GrantsKept DEF Deny
<1> QED BY <1>4, <1>5, <1>6, <1>7, <1>8, <1>9
-----------------------------------------------------------------------------
(* The action runs, and the environment moves *)

\* The action takes effect, succeeds or raises.
LEMMA PerformSafe ==
    ASSUME TypeOK, TypeOK', SafetyInv, Perform
    PROVE  SafetyInv'
<1> USE DEF SafetyInv
<1> DEFINE r == run.req
<1>1. run \in Run /\ r \in Requests /\ run.phase = "started"
  BY RunType DEF Perform, Run
<1>2. /\ run'.phase \in {"performed", "broken"}
      /\ run'.req = r /\ run'.key = run.key /\ run'.session = run.session
      /\ run'.mode = run.mode /\ run'.since = run.since
  BY <1>1 DEF Perform, Run
<1>3. /\ effects[r] = 0 /\ effects'[r] \in {0, 1}
      /\ \A q \in Requests \ {r} : effects'[q] = effects[q]
  BY <1>1 DEF Perform, RunOnRecord, TypeOK
<1>4. UNCHANGED log /\ LogExtends /\ NewRowsAbout(r)
  BY <1>1, LogUnchanged DEF Perform
<1>5. /\ \A i \in 1..Len(log) : log[i].req = r => log[i].event \in {"requested", "approved", "trusted"}
      /\ HasRow(r, {"requested"}) => HasRow(r, {"approved", "trusted"})
  BY <1>1 DEF RunOnRecord
<1>6. RunAuthorised'
  BY <1>1, <1>2, <1>4, StaysAuthorised
<1>7. AtMostOnce'
  <2> SUFFICES ASSUME NEW q \in Requests
               PROVE  /\ effects'[q] <= 1
                      /\ HasRow(q, {"denied", "blocked"}) => effects'[q] = 0
    BY <1>4, SomeEvents, RowsSame DEF AtMostOnce
  <2>1. CASE q = r
    BY <1>3, <1>5, <2>1 DEF HasRow, RowsOf
  <2>2. CASE q # r
    BY <1>3, <2>2 DEF AtMostOnce
  <2> QED BY <2>1, <2>2
<1>8. AuditTrail'
  BY <1>4 DEF AuditTrail
<1>9. EffectOnRecord'
  <2> SUFFICES ASSUME NEW q \in Requests, effects'[q] > 0, HasRow(q, {"requested"})
               PROVE  HasRow(q, {"approved", "trusted"})
    BY <1>4, SomeEvents, RowsSame DEF EffectOnRecord
  <2>1. CASE q = r
    BY <1>5, <2>1
  <2>2. CASE q # r
    BY <1>3, <2>2 DEF EffectOnRecord
  <2> QED BY <2>1, <2>2
<1>10. PendingOnRecord'
  <2> SUFFICES ASSUME NEW j \in Keys, pendingApproval'[j] # Absent
               PROVE  WaitsOnRecord(j)'
    BY DEF PendingOnRecord
  <2>1. \A i \in Keys : pendingApproval'[i] = pendingApproval[i]
    BY DEF Perform
  <2>2. pendingApproval'[j].req # r
    BY <1>1, <2>1 DEF PendingOnRecord, WaitsOnRecord
  <2>3. run'.req = run.req /\ run.phase # "idle"
    BY <1>1, <1>2
  <2> QED BY <1>1, <1>2, <1>3, <1>4, <2>1, <2>2, <2>3, OthersWait
<1>11. TrustOnRecord'
  BY <1>4, GrantsKept DEF Perform
<1>12. RunOnRecord'
  <2>1. /\ \A i \in 1..Len(log') : log'[i].req = run'.req
                                     => log'[i].event \in {"requested", "approved", "trusted"}
        /\ effects'[run'.req] <= 1
        /\ run'.phase # "started"
    BY <1>2, <1>3, <1>4, <1>5
  <2>2. HasRow(run.req, {"requested"})' => HasRow(run.req, {"approved", "trusted"})'
    BY <1>2, <1>4, <1>5 DEF HasRow, RowsOf
  <2> QED BY <2>1, <2>2 DEF RunOnRecord
<1> QED BY <1>6, <1>7, <1>8, <1>9, <1>10, <1>11, <1>12

\* The outcome is logged and the event loop is free again.
LEMMA LogOutcomeSafe ==
    ASSUME TypeOK, TypeOK', SafetyInv, LogOutcome
    PROVE  SafetyInv'
<1> USE DEF SafetyInv
<1> DEFINE r == run.req
           e == Row(IF run.phase = "performed" THEN "executed" ELSE "failed",
                    run.req, run.key, run.session, run.mode, "none")
<1>1. run \in Run /\ r \in Requests /\ run.phase # "idle"
  BY RunType DEF LogOutcome, Run
<1>2. /\ e \in Entry /\ log' = Append(log, e)
      /\ e.event \in {"executed", "failed"} /\ e.req = r
  <2>1. \A event \in {"executed", "failed"} :
          Row(event, run.req, run.key, run.session, run.mode, "none") \in Entry
    BY <1>1, RowType DEF Events, Scopes, Run
  <2> QED BY <2>1 DEF LogOutcome, Row
<1>3. LogExtends /\ NewRowsAbout(r)
  BY <1>2, LogAppended
<1>4. /\ \A i \in 1..Len(log) : log[i].req = r => log[i].event \in {"requested", "approved", "trusted"}
      /\ run' = IdleRun /\ run'.phase = "idle"
  BY <1>1 DEF RunOnRecord, LogOutcome, IdleRun
<1>5. RunAuthorised' /\ RunOnRecord'
  BY <1>4 DEF RunAuthorised, RunOnRecord
<1>6. AtMostOnce'
  <2> HIDE DEF e, r
  <2> QED BY <1>2, SomeEvents, RowsMore DEF AtMostOnce, LogOutcome
<1>7. AuditTrail'
  <2> HIDE DEF e
  <2> QED BY <1>2, <1>4, TrailKept DEF Verdicts, Outcomes
<1>8. EffectOnRecord'
  <2> HIDE DEF e, r
  <2> QED BY <1>2, SomeEvents, RowsMore DEF EffectOnRecord, LogOutcome
<1>9. PendingOnRecord'
  <2> SUFFICES ASSUME NEW j \in Keys, pendingApproval'[j] # Absent
               PROVE  WaitsOnRecord(j)'
    BY DEF PendingOnRecord
  <2>1. \A i \in Keys : pendingApproval'[i] = pendingApproval[i]
    BY DEF LogOutcome
  <2>2. pendingApproval'[j].req # r
    BY <1>1, <2>1 DEF PendingOnRecord, WaitsOnRecord
  <2> QED BY <1>1, <1>3, <1>4, <2>1, <2>2, OthersWait DEF LogOutcome
<1>10. TrustOnRecord'
  BY <1>3, GrantsKept DEF LogOutcome
<1> QED BY <1>5, <1>6, <1>7, <1>8, <1>9, <1>10

\* Steps that write no row and run nothing: forgetting, the clock, a restart.
LEMMA QuietSafe ==
    ASSUME TypeOK, TypeOK', SafetyInv, UNCHANGED <<log, effects>>,
           \A k \in Keys : pendingApproval'[k] \in {Absent, pendingApproval[k]},
           \A k \in Keys, a \in ActionKinds : convTrust'[k][a] \in {0, convTrust[k][a]},
           \A s \in Sessions, a \in ActionKinds : sessTrust'[s][a] \in {0, sessTrust[s][a]},
           run' \in {run, IdleRun}
    PROVE  SafetyInv'
<1> USE DEF SafetyInv
<1>1. LogExtends /\ \A i \in 1..Len(log') : log'[i] = log[i]
  BY LogUnchanged
<1>2. run'.phase # "idle" => run' = run /\ run.phase # "idle"
  BY DEF IdleRun
<1>3. RunAuthorised'
  <2>1. CASE run'.phase = "idle"
    BY <2>1 DEF RunAuthorised
  <2>2. CASE run'.phase # "idle"
    BY <1>1, <1>2, <2>2, StaysAuthorised
  <2> QED BY <2>1, <2>2
<1>4. AtMostOnce' /\ EffectOnRecord'
  BY SomeEvents, RowsSame DEF AtMostOnce, EffectOnRecord
<1>5. AuditTrail'
  BY DEF AuditTrail
<1>6. PendingOnRecord'
  BY <1>2 DEF PendingOnRecord, WaitsOnRecord
<1>7. TrustOnRecord'
  BY <1>1, GrantsKept
<1>8. RunOnRecord'
  BY <1>2 DEF RunOnRecord, HasRow, RowsOf
<1> QED BY <1>3, <1>4, <1>5, <1>6, <1>7, <1>8

\* What is posted to the tool routes touches a request that nothing else knows.
LEMMA ToolRouteSafe ==
    ASSUME TypeOK, TypeOK', SafetyInv, NEW r \in Requests, ToolRoute(r)
    PROVE  SafetyInv'
<1> USE DEF SafetyInv
<1>1. /\ UNCHANGED <<pendingApproval, convTrust, sessTrust, run, log>>
      /\ run'.phase = "idle"
      /\ effects'[r] = 1
      /\ \A q \in Requests \ {r} : effects'[q] = effects[q]
  BY DEF ToolRoute, Fresh, TypeOK
<1>2. /\ \A k \in Keys : pendingApproval[k] # Absent => pendingApproval[k].req # r
      /\ \A events \in SUBSET Events : ~HasRow(r, events)
  BY FreshIsNew DEF ToolRoute
<1>3. RunAuthorised' /\ RunOnRecord'
  BY <1>1 DEF RunAuthorised, RunOnRecord
<1>4. AtMostOnce' /\ EffectOnRecord'
  BY <1>1, <1>2, SomeEvents, RowsSame DEF AtMostOnce, EffectOnRecord
<1>5. AuditTrail'
  BY <1>1 DEF AuditTrail
<1>6. PendingOnRecord'
  <2> SUFFICES ASSUME NEW k \in Keys, pendingApproval'[k] # Absent
               PROVE  WaitsOnRecord(k)'
    BY DEF PendingOnRecord
  <2>1. pendingApproval'[k] = pendingApproval[k] /\ pendingApproval'[k].req # r
    BY <1>1, <1>2
  <2> QED BY <1>1, <2>1, LogUnchanged, OthersWait
<1>7. TrustOnRecord'
  BY <1>1 DEF TrustOnRecord
<1> QED BY <1>3, <1>4, <1>5, <1>6, <1>7

-----------------------------------------------------------------------------
(* The theorem *)

\* Initially the log is empty and nothing waits, runs or is granted.
LEMMA InitSafe == Init => SafetyInv
<1> SUFFICES ASSUME Init PROVE SafetyInv
  OBVIOUS
<1>1. Len(log) = 0 /\ run.phase = "idle"
  BY DEF Init, IdleRun
<1>2. RunAuthorised /\ RunOnRecord /\ AuditTrail
  BY <1>1 DEF RunAuthorised, RunOnRecord, AuditTrail
<1>3. AtMostOnce /\ EffectOnRecord
  BY DEF Init, AtMostOnce, EffectOnRecord
<1>4. PendingOnRecord /\ TrustOnRecord
  BY DEF Init, PendingOnRecord, TrustOnRecord
<1> QED BY <1>2, <1>3, <1>4 DEF SafetyInv

\* Every step keeps the invariant.
LEMMA NextSafe ==
    ASSUME TypeOK, TypeOK', SafetyInv, [Next]_vars
    PROVE  SafetyInv'
<1>1. ASSUME NEW r \in Requests, NEW k \in Keys, NEW s \in Sessions, NEW raw \in RawModes,
             Guard(r, k, s, raw)
      PROVE  SafetyInv'
  <2> DEFINE mode == NormalizeMode(raw)
  <2>1. mode \in AccessModes
    BY ModeType
  <2> HIDE DEF mode
  <2>2. /\ run.phase = "idle" /\ Fresh(r)
        /\ \/ GuardFullAccess(r, k, s, mode) \/ GuardTrusted(r, k, s, mode)
           \/ GuardPending(r, k, s, mode) \/ GuardBlocked(r, k, s, mode)
    BY <1>1 DEF Guard, mode
  <2> QED BY <2>1, <2>2, FullAccessSafe, TrustedSafe, PendingSafe, BlockedSafe
<1>2. ASSUME NEW k \in Keys, NEW s \in Sessions, Decide(k, s)
      PROVE  SafetyInv'
  BY <1>2, DenySafe, ApproveSafe, TrustConversationSafe, TrustSessionSafe DEF Decide
<1>3. ASSUME NEW k \in Keys, ForgetExpiredPending(k)
      PROVE  SafetyInv'
  <2>1. \A j \in Keys : pendingApproval'[j] \in {Absent, pendingApproval[j]}
    BY <1>3 DEF ForgetExpiredPending, ClearPending, TypeOK
  <2> QED BY <1>3, <2>1, QuietSafe DEF ForgetExpiredPending
<1>4. CASE Perform
  BY <1>4, PerformSafe
<1>5. CASE LogOutcome
  BY <1>5, LogOutcomeSafe
<1>6. CASE Tick
  BY <1>6, QuietSafe DEF Tick
<1>7. CASE Restart
  BY <1>7, QuietSafe DEF Restart
<1>8. ASSUME NEW r \in Requests, ToolRoute(r)
      PROVE  SafetyInv'
  BY <1>8, ToolRouteSafe
<1>9. CASE UNCHANGED vars
  BY <1>9, QuietSafe DEF vars
<1> QED BY <1>1, <1>2, <1>3, <1>4, <1>5, <1>6, <1>7, <1>8, <1>9 DEF Next, HostStep

\* SafetyInv is an invariant of the gate: see its parts below.
THEOREM SafetyCorrect == Spec => []SafetyInv
<1>1. Init => SafetyInv
  BY InitSafe
<1>2. TypeOK /\ TypeOK' /\ SafetyInv /\ [Next]_vars => SafetyInv'
  BY NextSafe
<1> QED BY <1>1, <1>2, TypeCorrect, PTL DEF Spec

\* Only the execution behind the gate and the tool routes have effects.
LEMMA WhatHasEffects ==
    ASSUME TypeOK, Next, NEW r \in Requests, effects'[r] # effects[r]
    PROVE  \/ Perform /\ run.req = r
           \/ ToolRoute(r)
<1>1. CASE Perform
  <2>1. run.req \in Requests
    BY <1>1, RunType DEF Perform, Run
  <2>2. effects' \in {effects, [effects EXCEPT ![run.req] = @ + 1]}
    BY <1>1 DEF Perform
  <2> QED BY <1>1, <2>1, <2>2 DEF TypeOK
<1>2. ASSUME NEW q \in Requests, ToolRoute(q)
      PROVE  ToolRoute(r)
  <2>1. effects' = [effects EXCEPT ![q] = @ + 1]
    BY <1>2 DEF ToolRoute
  <2>2. q = r
    BY <2>1 DEF TypeOK
  <2> QED BY <1>2, <2>2
<1>3. CASE \E q \in Requests, k \in Keys, s \in Sessions, raw \in RawModes : Guard(q, k, s, raw)
  BY <1>3 DEF Guard, GuardFullAccess, GuardTrusted, GuardPending, GuardBlocked
<1>4. CASE \E k \in Keys, s \in Sessions : Decide(k, s)
  BY <1>4 DEF Decide, Deny, Approve, TrustConversation, TrustSession
<1>5. CASE \/ \E k \in Keys : ForgetExpiredPending(k)
           \/ LogOutcome \/ Tick \/ Restart
  BY <1>5 DEF ForgetExpiredPending, LogOutcome, Tick, Restart
<1> QED BY <1>1, <1>2, <1>3, <1>4, <1>5 DEF Next, HostStep

\* Nothing takes effect that was not asked for under full access, let through
\* by a timely answer to its own card, or covered by a live grant of its kind
\* and scope, except what is posted to the tool routes.
THEOREM OnlyAuthorisedEffects == Spec => EffectAuthorised
<1> DEFINE Explained == \A r \in Requests : effects'[r] # effects[r] =>
               \/ run.phase = "started" /\ run.req = r /\ Authorised(run)
               \/ ToolRoute(r)
<1>1. TypeOK /\ SafetyInv /\ [Next]_vars => [Explained]_vars
  <2> SUFFICES ASSUME TypeOK, RunAuthorised, Next, NEW r \in Requests, effects'[r] # effects[r]
               PROVE  \/ run.phase = "started" /\ run.req = r /\ Authorised(run)
                      \/ ToolRoute(r)
    BY DEF SafetyInv
  <2>1. CASE Perform /\ run.req = r
    BY <2>1 DEF Perform, RunAuthorised
  <2> QED BY <2>1, WhatHasEffects
<1> QED BY <1>1, TypeCorrect, SafetyCorrect, PTL DEF Spec, EffectAuthorised

\* No request takes effect twice, and none after a refusal.
THEOREM EffectsAtMostOnce == Spec => []AtMostOnce
<1>1. SafetyInv => AtMostOnce
  BY DEF SafetyInv
<1> QED BY <1>1, SafetyCorrect, PTL

\* The audit log holds at most one verdict and one outcome of a request, in
\* that order.
THEOREM AuditTrailInOrder == Spec => []AuditTrail
<1>1. SafetyInv => AuditTrail
  BY DEF SafetyInv
<1> QED BY <1>1, SafetyCorrect, PTL

\* Whatever waited on a card and took effect has its approval in the log, even
\* across restarts.
THEOREM EffectsOnRecord == Spec => []EffectOnRecord
<1>1. SafetyInv => EffectOnRecord
  BY DEF SafetyInv
<1> QED BY <1>1, SafetyCorrect, PTL

-----------------------------------------------------------------------------
(* What waits is kept *)

\* A step that writes a row about the conversation whose approval it touches
\* keeps the others.
LEMMA RowExplains ==
    ASSUME TypeOK, NEW k \in Keys, NEW e \in Entry, log' = Append(log, e), e.key = k,
           e.event \in {"requested", "denied", "approved", "trusted"},
           \A j \in Keys \ {k} : pendingApproval'[j] = pendingApproval[j]
    PROVE  \A j \in Keys : KeptOrAnswered(j)
<1>1. Len(log') = Len(log) + 1 /\ log'[Len(log')] = e
  BY LogAppended
<1> QED BY <1>1 DEF KeptOrAnswered

\* A request takes the place of what waited in its own conversation only.
LEMMA GuardKeeps ==
    ASSUME TypeOK, NEW r \in Requests, NEW k \in Keys, NEW s \in Sessions, NEW raw \in RawModes,
           Guard(r, k, s, raw)
    PROVE  \A j \in Keys : KeptOrAnswered(j)
<1> DEFINE mode == NormalizeMode(raw)
<1>1. mode \in AccessModes
  BY ModeType
<1> HIDE DEF mode
<1>2. CASE GuardPending(r, k, s, mode)
  <2>1. Row("requested", r, k, s, mode, "none") \in Entry
    BY <1>1, RowType DEF Events, Scopes
  <2>2. \A j \in Keys \ {k} : pendingApproval'[j] = pendingApproval[j]
    BY <1>2 DEF GuardPending, TypeOK
  <2> QED BY <1>2, <2>1, <2>2, RowExplains DEF GuardPending, Row
<1>3. CASE UNCHANGED pendingApproval
  BY <1>3 DEF KeptOrAnswered
<1>4. \/ GuardFullAccess(r, k, s, mode) \/ GuardTrusted(r, k, s, mode)
      \/ GuardPending(r, k, s, mode) \/ GuardBlocked(r, k, s, mode)
  BY DEF Guard, mode
<1> QED BY <1>2, <1>3, <1>4 DEF GuardFullAccess, GuardTrusted, GuardBlocked

\* An answer is about the approval that waits in its own conversation.
LEMMA DecideKeeps ==
    ASSUME TypeOK, NEW k \in Keys, NEW s \in Sessions, Decide(k, s)
    PROVE  \A j \in Keys : KeptOrAnswered(j)
<1>1. pendingApproval[k].req \in Requests
  BY LiveIsPresent, PendingType DEF Decide
<1>2. PICK event \in {"denied", "approved", "trusted"}, who \in Sessions, scope \in Scopes :
        log' = Append(log, Row(event, pendingApproval[k].req, k, who, "approve_risky", scope))
  BY DEF Decide, Deny, Approve, TrustConversation, TrustSession, Scopes
<1>3. Row(event, pendingApproval[k].req, k, who, "approve_risky", scope) \in Entry
  BY <1>1, RowType DEF Events, AccessModes
<1>4. \A j \in Keys \ {k} : pendingApproval'[j] = pendingApproval[j]
  <2>1. ClearPending(k)
    BY DEF Decide, Deny, Approve, TrustConversation, TrustSession
  <2> QED BY <2>1 DEF ClearPending, TypeOK
<1> QED BY <1>2, <1>3, <1>4, RowExplains DEF Row

\* A waiting approval leaves only by an answer, by expiry, by a newer request
\* in its own conversation or by a restart.
THEOREM WhatWaitsIsKept == Spec => PendingKept
<1>1. TypeOK /\ [Next]_vars => [\A k \in Keys : KeptOrAnswered(k)]_vars
  <2> SUFFICES ASSUME TypeOK, Next PROVE \A k \in Keys : KeptOrAnswered(k)
    OBVIOUS
  <2>1. CASE \E r \in Requests, k \in Keys, s \in Sessions, raw \in RawModes : Guard(r, k, s, raw)
    BY <2>1, GuardKeeps
  <2>2. CASE \E k \in Keys, s \in Sessions : Decide(k, s)
    BY <2>2, DecideKeeps
  <2>3. ASSUME NEW k \in Keys, ForgetExpiredPending(k)
        PROVE  \A j \in Keys : KeptOrAnswered(j)
    <3>1. \A j \in Keys : PendingLive(j) => pendingApproval'[j] = pendingApproval[j]
      BY <2>3 DEF ForgetExpiredPending, ClearPending, TypeOK
    <3> QED BY <3>1 DEF KeptOrAnswered
  <2>4. CASE Restart
    BY <2>4 DEF KeptOrAnswered
  <2>5. CASE UNCHANGED pendingApproval
    BY <2>5 DEF KeptOrAnswered
  <2> QED BY <2>1, <2>2, <2>3, <2>4, <2>5 DEF Next, HostStep, Perform, LogOutcome, ToolRoute, Tick
<1> QED BY <1>1, TypeCorrect, PTL DEF Spec, PendingKept

-----------------------------------------------------------------------------
(* The dictionaries, the run and the log implement ActionGate *)

Executing(r) == run.phase # "idle" /\ run.req = r
Held(r) == \E k \in Keys : pendingApproval[k] # Absent /\ pendingApproval[k].req = r

\* The stage of a request, before and after a step.
LEMMA StageBefore ==
    ASSUME NEW r \in Requests
    PROVE  stage[r] = IF Executing(r) THEN IF run.phase = "started" THEN "authorised" ELSE "acted"
                      ELSE IF Held(r) THEN "waiting" ELSE IF Fresh(r) THEN "new" ELSE "closed"
BY DEF stage, Executing, Held

LEMMA StageAfter ==
    ASSUME NEW r \in Requests
    PROVE  stage'[r] = IF Executing(r)' THEN IF run'.phase = "started" THEN "authorised" ELSE "acted"
                       ELSE IF Held(r)' THEN "waiting" ELSE IF Fresh(r)' THEN "new" ELSE "closed"
BY DEF stage, Executing, Held

LEMMA StageTypes == stage' \in [Requests -> Gate!Stages]
BY DEF stage, Gate!Stages

\* While nothing is executed, no request is let through or has just acted.
LEMMA IdleIsQuiet == run.phase = "idle" => Gate!Quiet
BY StageBefore DEF Gate!Quiet, Executing

\* What waits has a row, so it is not new.
LEMMA HeldIsKnown ==
    ASSUME TypeOK, PendingOnRecord, NEW r \in Requests, Held(r)
    PROVE  ~Fresh(r)
BY FreshIsNew DEF Held

\* Fresh looks at rows, run and effects of its own request only.
LEMMA FreshSame ==
    ASSUME TypeOK, TypeOK', LogExtends, NEW r \in Requests, NewRowsAbout(r), NEW q \in Requests \ {r},
           ~Executing(q), ~Executing(q)', effects'[q] = effects[q]
    PROVE  Fresh(q)' <=> Fresh(q)
<1>1. Len(log) \in Nat /\ Len(log') \in Nat
  BY DEF TypeOK
<1>2. (\A i \in 1..Len(log') : log'[i].req # q) <=> (\A i \in 1..Len(log) : log[i].req # q)
  BY <1>1 DEF LogExtends, NewRowsAbout
<1> QED BY <1>2 DEF Fresh, Executing

\* A step about r leaves the other requests where they are, or drops them.
LEMMA OthersStay ==
    ASSUME TypeOK, TypeOK', PendingOnRecord, LogExtends, NEW r \in Requests, NewRowsAbout(r),
           run.phase # "idle" => run.req = r, run'.phase # "idle" => run'.req = r,
           \A q \in Requests \ {r} : effects'[q] = effects[q],
           \A j \in Keys : \/ pendingApproval'[j] \in {Absent, pendingApproval[j]}
                           \/ pendingApproval'[j].req = r
    PROVE  \A q \in Requests \ {r} : stage'[q] = stage[q] \/ Gate!MayDrop(q, stage'[q])
<1> SUFFICES ASSUME NEW q \in Requests \ {r}
             PROVE  stage'[q] = stage[q] \/ Gate!MayDrop(q, stage'[q])
  OBVIOUS
<1>1. ~Executing(q) /\ ~Executing(q)'
  BY DEF Executing
<1>2. Fresh(q)' <=> Fresh(q)
  BY <1>1, FreshSame
<1>3. Held(q)' => Held(q)
  BY DEF Held
<1>4. Held(q) => ~Fresh(q)
  BY HeldIsKnown
<1> QED BY <1>1, <1>2, <1>3, <1>4, StageBefore, StageAfter DEF Gate!MayDrop

\* A step about r that takes it from one stage to another is a move.
LEMMA StepMoves ==
    ASSUME NEW r \in Requests, NEW from, NEW to, stage[r] \in from, stage'[r] = to,
           \A q \in Requests \ {r} : stage'[q] = stage[q] \/ Gate!MayDrop(q, stage'[q])
    PROVE  Gate!Move(r, from, to)
BY StageTypes DEF Gate!Move

\* A request is put on a card, starts or is turned away.
LEMMA GuardRefines ==
    ASSUME TypeOK, TypeOK', PendingOnRecord, NEW r \in Requests, NEW k \in Keys,
           NEW s \in Sessions, NEW raw \in RawModes, Guard(r, k, s, raw)
    PROVE  Gate!Ask(r)
<1> DEFINE mode == NormalizeMode(raw)
<1>1. mode \in AccessModes
  BY ModeType
<1> HIDE DEF mode
<1>2. /\ run.phase = "idle" /\ Fresh(r) /\ UNCHANGED effects
      /\ \/ GuardFullAccess(r, k, s, mode) \/ GuardTrusted(r, k, s, mode)
         \/ GuardPending(r, k, s, mode) \/ GuardBlocked(r, k, s, mode)
  BY DEF Guard, mode, GuardFullAccess, GuardTrusted, GuardPending, GuardBlocked
<1>3. stage[r] = "new"
  BY <1>2, StageBefore, HeldIsKnown DEF Executing
<1>4. Gate!Quiet
  BY <1>2, IdleIsQuiet
<1>5. CASE UNCHANGED <<log, pendingApproval>> /\ StartRun(r, k, s, mode)
  <2>1. stage'[r] = "authorised"
    BY <1>5, StageAfter DEF StartRun, Executing
  <2>2. \A q \in Requests \ {r} : stage'[q] = stage[q] \/ Gate!MayDrop(q, stage'[q])
    BY <1>2, <1>5, LogUnchanged, OthersStay DEF StartRun
  <2> QED BY <1>2, <1>3, <1>4, <2>1, <2>2, StepMoves DEF Gate!Ask
<1>6. CASE GuardPending(r, k, s, mode)
  <2>1. Row("requested", r, k, s, mode, "none") \in Entry
    BY <1>1, RowType DEF Events, Scopes
  <2>2. LogExtends /\ NewRowsAbout(r) /\ run' = run
    BY <1>6, <2>1, LogAppended DEF GuardPending, Row
  <2>3. /\ pendingApproval'[k] # Absent /\ pendingApproval'[k].req = r
        /\ \A j \in Keys \ {k} : pendingApproval'[j] = pendingApproval[j]
    BY <1>6 DEF GuardPending, TypeOK, Absent
  <2>4. stage'[r] = "waiting"
    BY <1>2, <2>2, <2>3, StageAfter DEF Executing, Held
  <2>5. \A q \in Requests \ {r} : stage'[q] = stage[q] \/ Gate!MayDrop(q, stage'[q])
    BY <1>2, <2>2, <2>3, OthersStay
  <2> QED BY <1>2, <1>3, <1>4, <2>4, <2>5, StepMoves DEF Gate!Ask
<1>7. CASE GuardBlocked(r, k, s, mode)
  <2>1. Row("blocked", r, k, s, mode, "none") \in Entry
    BY <1>1, RowType DEF Events, Scopes
  <2>2. LogExtends /\ NewRowsAbout(r) /\ ~Fresh(r)' /\ UNCHANGED <<run, pendingApproval>>
    <3>1. Len(log') = Len(log) + 1 /\ log'[Len(log) + 1].req = r /\ LogExtends /\ NewRowsAbout(r)
      BY <1>7, <2>1, LogAppended DEF GuardBlocked, Row
    <3> QED BY <1>7, <3>1, LogLength DEF Fresh, GuardBlocked
  <2>3. ~Held(r)'
    BY <1>2, <2>2, HeldIsKnown DEF Held
  <2>4. stage'[r] = "closed"
    BY <1>2, <2>2, <2>3, StageAfter DEF Executing
  <2>5. \A q \in Requests \ {r} : stage'[q] = stage[q] \/ Gate!MayDrop(q, stage'[q])
    BY <1>2, <2>2, OthersStay
  <2> QED BY <1>2, <1>3, <1>4, <2>4, <2>5, StepMoves DEF Gate!Ask
<1> QED BY <1>2, <1>5, <1>6, <1>7 DEF GuardFullAccess, GuardTrusted

\* What waits is let through or turned away by its answer.
LEMMA DecideRefines ==
    ASSUME TypeOK, TypeOK', PendingOnRecord, NEW k \in Keys, NEW s \in Sessions, Decide(k, s)
    PROVE  Gate!Answer(pendingApproval[k].req)
<1>0. PICK r \in Requests : r = pendingApproval[k].req
  BY LiveIsPresent, PendingType DEF Decide
<1>1. pendingApproval[k] # Absent /\ run.phase = "idle" /\ UNCHANGED effects
  BY LiveIsPresent DEF Decide, Deny, Approve, TrustConversation, TrustSession
<1>2. PICK event \in {"denied", "approved", "trusted"}, who \in Sessions, scope \in Scopes :
        log' = Append(log, Row(event, r, k, who, "approve_risky", scope))
  BY <1>0 DEF Decide, Deny, Approve, TrustConversation, TrustSession, Scopes
<1>3. Row(event, r, k, who, "approve_risky", scope) \in Entry
  BY <1>1, RowType DEF Events, AccessModes
<1>4. LogExtends /\ NewRowsAbout(r) /\ ~Fresh(r)'
  <2>1. Len(log') = Len(log) + 1 /\ log'[Len(log) + 1].req = r /\ LogExtends /\ NewRowsAbout(r)
    BY <1>2, <1>3, LogAppended DEF Row
  <2> QED BY <2>1, LogLength DEF Fresh
<1>5. ClearPending(k)
  BY DEF Decide, Deny, Approve, TrustConversation, TrustSession
<1>6. /\ ~Held(r)'
      /\ \A j \in Keys : pendingApproval'[j] \in {Absent, pendingApproval[j]}
  BY <1>0, <1>1, <1>5, ClearedOnly DEF Held
<1>7. stage[r] = "waiting" /\ Gate!Quiet
  <2>1. ~Executing(r) /\ Held(r)
    BY <1>0, <1>1 DEF Executing, Held
  <2> QED BY <1>1, <2>1, StageBefore, IdleIsQuiet
<1>8. run' = run \/ StartRun(r, k, s, "approve_risky")
  BY <1>0 DEF Decide, Deny, Approve, TrustConversation, TrustSession
<1>9. stage'[r] \in {"authorised", "closed"}
  BY <1>1, <1>4, <1>6, <1>8, StageAfter DEF StartRun, Executing
<1>10. \A q \in Requests \ {r} : stage'[q] = stage[q] \/ Gate!MayDrop(q, stage'[q])
  BY <1>1, <1>4, <1>6, <1>8, OthersStay DEF StartRun
<1>11. Gate!Answer(r)
  BY <1>1, <1>7, <1>9, <1>10, StepMoves DEF Gate!Answer
<1> QED BY <1>0, <1>11

\* What was let through acts, once at most.
LEMMA PerformRefines ==
    ASSUME TypeOK, TypeOK', PendingOnRecord, Perform
    PROVE  Gate!Act(run.req)
<1>0. PICK r \in Requests : r = run.req
  BY RunType DEF Perform, Run
<1>1. /\ run.phase = "started" /\ run'.req = r
      /\ run'.phase \in {"performed", "broken"}
      /\ UNCHANGED <<log, pendingApproval>>
      /\ effects' \in {effects, [effects EXCEPT ![r] = @ + 1]}
  BY <1>0, RunType DEF Perform, Run
<1>2. stage[r] = "authorised" /\ stage'[r] = "acted"
  BY <1>0, <1>1, StageBefore, StageAfter DEF Executing
<1>3. \A q \in Requests \ {r} : effects'[q] = effects[q]
  BY <1>1 DEF TypeOK
<1>4. \A q \in Requests \ {r} : stage'[q] = stage[q] \/ Gate!MayDrop(q, stage'[q])
  BY <1>0, <1>1, <1>3, LogUnchanged, OthersStay
<1>5. Gate!Act(r)
  BY <1>1, <1>2, <1>4, StepMoves DEF Gate!Act
<1> QED BY <1>0, <1>5

\* What is posted to the tool routes goes around the gate.
LEMMA ToolRouteRefines ==
    ASSUME TypeOK, TypeOK', PendingOnRecord, NEW r \in Requests, ToolRoute(r)
    PROVE  Gate!GoAround(r)
<1>1. /\ run.phase = "idle" /\ Fresh(r) /\ UNCHANGED <<pendingApproval, run, log>>
      /\ effects' = [effects EXCEPT ![r] = @ + 1]
      /\ \A q \in Requests \ {r} : effects'[q] = effects[q]
  BY DEF ToolRoute, TypeOK
<1>2. effects'[r] = 1
  BY <1>1 DEF Fresh, TypeOK
<1>3. ~Executing(r)' /\ ~Held(r)' /\ ~Fresh(r)'
  BY <1>1, <1>2, HeldIsKnown DEF Executing, Held, Fresh
<1>4. stage[r] = "new" /\ stage'[r] = "closed"
  BY <1>1, <1>3, StageBefore, StageAfter, HeldIsKnown DEF Executing
<1>5. \A q \in Requests \ {r} : stage'[q] = stage[q] \/ Gate!MayDrop(q, stage'[q])
  BY <1>1, LogUnchanged, OthersStay
<1> QED BY <1>1, <1>4, <1>5, StepMoves, IdleIsQuiet DEF Gate!GoAround

\* The outcome's row closes the request.
LEMMA OutcomeRefines ==
    ASSUME TypeOK, TypeOK', PendingOnRecord, LogOutcome
    PROVE  Gate!Finish(run.req)
<1>0. PICK r \in Requests : r = run.req
  BY RunType DEF LogOutcome, Run, IdleRun
<1>1. /\ run \in Run /\ run.phase \in {"performed", "broken"}
      /\ run' = IdleRun /\ UNCHANGED <<pendingApproval, effects>>
  BY RunType DEF LogOutcome, Run, IdleRun
<1>2. PICK event \in {"executed", "failed"} :
        log' = Append(log, Row(event, run.req, run.key, run.session, run.mode, "none"))
  BY DEF LogOutcome
<1>3. Row(event, run.req, run.key, run.session, run.mode, "none") \in Entry
  BY <1>1, RowType DEF Events, Scopes, Run
<1>4. LogExtends /\ NewRowsAbout(r) /\ ~Fresh(r)'
  <2>1. Len(log') = Len(log) + 1 /\ log'[Len(log) + 1].req = r /\ LogExtends /\ NewRowsAbout(r)
    BY <1>0, <1>2, <1>3, LogAppended DEF Row
  <2> QED BY <2>1, LogLength DEF Fresh
<1>5. ~Held(r)'
  <2>1. ~Held(r)
    BY <1>0, <1>1 DEF Held, PendingOnRecord, WaitsOnRecord
  <2> QED BY <1>1, <2>1 DEF Held
<1>6. stage[r] = "acted" /\ stage'[r] = "closed"
  BY <1>0, <1>1, <1>4, <1>5, StageBefore, StageAfter DEF Executing, IdleRun
<1>7. \A q \in Requests \ {r} : stage'[q] = stage[q] \/ Gate!MayDrop(q, stage'[q])
  BY <1>0, <1>1, <1>4, OthersStay DEF IdleRun
<1>8. Gate!Finish(r)
  BY <1>1, <1>6, <1>7, StepMoves DEF Gate!Finish
<1> QED BY <1>0, <1>8

\* Forgetting what expired drops a request.
LEMMA ForgetRefines ==
    ASSUME TypeOK, TypeOK', PendingOnRecord, NEW k \in Keys, ForgetExpiredPending(k)
    PROVE  Gate!Drop
<1>0. PICK r \in Requests : r = pendingApproval[k].req
  BY PendingType DEF ForgetExpiredPending
<1>1. pendingApproval[k] # Absent /\ run.phase = "idle"
      /\ UNCHANGED <<run, log, effects>>
  BY DEF ForgetExpiredPending
<1>2. /\ ~Held(r)'
      /\ \A j \in Keys : pendingApproval'[j] \in {Absent, pendingApproval[j]}
  BY <1>0, <1>1, ClearedOnly DEF Held, ForgetExpiredPending
<1>3. Held(r)
  BY <1>0, <1>1 DEF Held
<1>4. ~Fresh(r)'
  BY <1>1, <1>3, HeldIsKnown DEF Fresh
<1>5. Gate!MayDrop(r, stage'[r])
  BY <1>1, <1>2, <1>3, <1>4, StageBefore, StageAfter DEF Executing, Gate!MayDrop
<1>6. \A q \in Requests \ {r} : stage'[q] = stage[q] \/ Gate!MayDrop(q, stage'[q])
  BY <1>1, <1>2, LogUnchanged, OthersStay
<1> QED BY <1>1, <1>5, <1>6, StageTypes DEF Gate!Drop

\* A restart closes what waited, and what was executed unless it left no trace.
LEMMA RestartRefines ==
    ASSUME TypeOK, TypeOK', PendingOnRecord, Restart
    PROVE  Gate!Crash
<1>1. run' = IdleRun /\ UNCHANGED <<log, effects>> /\ \A k \in Keys : pendingApproval'[k] = Absent
  BY DEF Restart
<1>2. ASSUME NEW r \in Requests
      PROVE  stage'[r] = IF Fresh(r)' THEN "new" ELSE "closed"
  BY <1>1, <1>2, StageAfter DEF Executing, Held, IdleRun
<1>3. ASSUME NEW r \in Requests
      PROVE  /\ Fresh(r) => Fresh(r)'
             /\ Fresh(r)' => effects[r] = 0
             /\ ~Executing(r) => (Fresh(r)' => Fresh(r))
  BY <1>1, <1>3 DEF Fresh, IdleRun, Executing
<1>4. ASSUME NEW r \in Requests
      PROVE  \/ stage[r] = "new" /\ stage'[r] = "new"
             \/ stage[r] = "closed" /\ stage'[r] = "closed"
             \/ stage[r] \in {"waiting", "authorised", "acted"} /\ stage'[r] = "closed"
             \/ stage[r] \in {"authorised", "acted"} /\ stage'[r] = "new" /\ effects[r] = 0
  <2>1. Held(r) => ~Fresh(r)
    BY <1>4, HeldIsKnown
  <2> QED BY <1>2, <1>3, <1>4, <2>1, StageBefore
<1> QED BY <1>1, <1>4, StageTypes DEF Gate!Crash

\* The dictionaries, the clock, the grants and the log implement the gate.
THEOREM GateImplemented == Spec => ImplementsGate
<1>1. Init => Gate!Init
  BY DEF Init, IdleRun, Gate!Init, stage, Fresh
<1>2. TypeOK /\ TypeOK' /\ SafetyInv /\ [Next]_vars => [Gate!Next]_(Gate!vars)
  <2> SUFFICES ASSUME TypeOK, TypeOK', PendingOnRecord, [Next]_vars
               PROVE  Gate!Next \/ UNCHANGED Gate!vars
    BY DEF SafetyInv
  <2>1. ASSUME NEW r \in Requests, NEW k \in Keys, NEW s \in Sessions, NEW raw \in RawModes,
               Guard(r, k, s, raw)
        PROVE  Gate!Next
    BY <2>1, GuardRefines DEF Gate!Next
  <2>2. ASSUME NEW k \in Keys, NEW s \in Sessions, Decide(k, s)
        PROVE  Gate!Next
    <3>1. pendingApproval[k].req \in Requests
      BY <2>2, LiveIsPresent, PendingType DEF Decide
    <3> QED BY <2>2, <3>1, DecideRefines DEF Gate!Next
  <2>3. ASSUME NEW k \in Keys, ForgetExpiredPending(k)
        PROVE  Gate!Next
    BY <2>3, ForgetRefines DEF Gate!Next
  <2>4. CASE Perform
    <3>1. run.req \in Requests
      BY <2>4, RunType DEF Perform, Run
    <3> QED BY <2>4, <3>1, PerformRefines DEF Gate!Next
  <2>5. CASE LogOutcome
    <3>1. run.req \in Requests
      BY <2>5, RunType DEF LogOutcome, Run
    <3> QED BY <2>5, <3>1, OutcomeRefines DEF Gate!Next
  <2>6. CASE Restart
    BY <2>6, RestartRefines DEF Gate!Next
  <2>7. ASSUME NEW r \in Requests, ToolRoute(r)
        PROVE  Gate!Next
    BY <2>7, ToolRouteRefines DEF Gate!Next
  <2>8. CASE UNCHANGED <<pendingApproval, run, log, effects>>
    BY <2>8 DEF Gate!vars, stage, Fresh
  <2> QED BY <2>1, <2>2, <2>3, <2>4, <2>5, <2>6, <2>7, <2>8 DEF Next, HostStep, Tick, vars
<1> QED BY <1>1, <1>2, TypeCorrect, SafetyCorrect, PTL DEF Spec, ImplementsGate, Gate!Spec
=============================================================================
