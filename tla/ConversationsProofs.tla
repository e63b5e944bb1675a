------------------------- MODULE ConversationsProofs -------------------------
(***************************************************************************)
(* Proofs about Conversations: its type invariant, that the active         *)
(* conversation exists and no turn outlives its conversation, that the id  *)
(* of a deleted one is never given out again, and that typed exchanges and *)
(* utterances are stored whole and once; and about LiveUpdates: that a     *)
(* host with clients is such a host, and that clients show what is stored. *)
(***************************************************************************)
EXTENDS LiveUpdates, FiniteSetTheorems, TLAPS

USE IdsAssumption, RestartsAssumption, NamesAssumption

\* The store keeps a conversation as long as there is more than one.
LEMMA OthersRemain ==
    ASSUME TypeOK, NEW c \in convs, Cardinality(convs) > 1
    PROVE  convs \ {c} # {}
<1> SUFFICES ASSUME convs = {c} PROVE FALSE
  OBVIOUS
<1> QED
  BY FS_Singleton

-----------------------------------------------------------------------------
(* Types *)

\* A revision of the live state.
LEMMA BumpType ==
    ASSUME TypeOK, NEW kind \in Kinds, NEW c \in Ids \cup {None}
    PROVE  Bump(kind, c) \in [rev : Nat, seq : Nat, kind : Kinds, conv : Ids \cup {None}]
<1>1. live \in [rev : Nat, seq : Nat, kind : Kinds, conv : Ids \cup {None}]
  BY DEF TypeOK
<1> QED
  BY <1>1 DEF Bump

\* Where a conversation's turn goes.
LEMMA TargetType ==
    ASSUME TypeOK, NEW c \in Ids \cup {None}
    PROVE  Target(c) \in Ids
BY DEF TypeOK, Target

\* A typed message that moves on.
LEMMA StepType ==
    ASSUME TypeOK, NEW m \in Typed, NEW at \in TypedPlaces, Step(m, at)
    PROVE  typed' \in [Typed -> [at : TypedPlaces, to : Ids \cup {None}, tool : BOOLEAN,
                                 user : Ids \cup {None}]]
<1> DEFINE r == [typed[m] EXCEPT !.at = at]
<1>1. r \in [at : TypedPlaces, to : Ids \cup {None}, tool : BOOLEAN, user : Ids \cup {None}]
  <2>1. typed[m] \in [at : TypedPlaces, to : Ids \cup {None}, tool : BOOLEAN, user : Ids \cup {None}]
    BY DEF TypeOK
  <2> QED
    BY <2>1
<1>2. typed' = [typed EXCEPT ![m] = r]
  BY DEF Step
<1> HIDE DEF r
<1> QED
  BY <1>1, <1>2 DEF TypeOK

LEMMA ReachType ==
    ASSUME TypeOK, NEW u \in Spoken, NEW at \in SpokenPlaces, Reach(u, at)
    PROVE  spoken' \in [Spoken -> [at : SpokenPlaces, user : Ids \cup {None}]]
<1> DEFINE r == [spoken[u] EXCEPT !.at = at]
<1>1. r \in [at : SpokenPlaces, user : Ids \cup {None}]
  <2>1. spoken[u] \in [at : SpokenPlaces, user : Ids \cup {None}]
    BY DEF TypeOK
  <2> QED
    BY <2>1
<1>2. spoken' = [spoken EXCEPT ![u] = r]
  BY DEF Reach
<1> HIDE DEF r
<1> QED
  BY <1>1, <1>2 DEF TypeOK

-----------------------------------------------------------------------------
(* The store *)

\* What every call of the store owes the others.
StoreKept ==
    /\ convs \in SUBSET Ids /\ lastId \in Ids /\ active \in Ids
    /\ history \in [Ids -> Seq(Turn)]
    /\ stuck \in BOOLEAN
    /\ ActiveExists /\ NoOrphanTurns /\ IdsGivenOut

\* A turn goes to a conversation that exists.
LEMMA AppendKeepsStore ==
    ASSUME StoreInv, NEW x \in Typed \cup Spoken, NEW role \in Role,
           NEW card \in {"no", "open", "final"}, NEW c \in Ids \cup {None},
           append_turn(x, role, card, c)
    PROVE  /\ StoreKept'
           /\ live' \in [rev : Nat, seq : Nat, kind : Kinds, conv : Ids \cup {None}]
<1> DEFINE d == Target(c)
           h == Append(history[d], [of |-> x, role |-> role, card |-> card])
<1>1. d \in Ids /\ d \in convs
  BY TargetType DEF StoreInv, append_turn
<1>2. h \in Seq(Turn)
  <2>1. history[d] \in Seq(Turn)
    BY <1>1 DEF StoreInv, TypeOK
  <2>2. [of |-> x, role |-> role, card |-> card] \in Turn
    BY DEF Turn
  <2> QED
    BY <2>1, <2>2
<1>3. history' = [history EXCEPT ![d] = h] /\ UNCHANGED <<convs, lastId, active, stuck>>
  BY DEF append_turn
<1>4. live' \in [rev : Nat, seq : Nat, kind : Kinds, conv : Ids \cup {None}]
  BY <1>1, BumpType DEF append_turn, StoreInv, Kinds
<1> HIDE DEF d, h
<1> QED
  BY <1>1, <1>2, <1>3, <1>4
     DEF StoreKept, StoreInv, TypeOK, ActiveExists, NoOrphanTurns, IdsGivenOut

\* A card that is rewritten is in a conversation that exists.
LEMMA CardKeepsStore ==
    ASSUME StoreInv, NEW c \in Ids, update_latest_tool_turn(c)
    PROVE  /\ StoreKept'
           /\ live' \in [rev : Nat, seq : Nat, kind : Kinds, conv : Ids \cup {None}]
<1>1. live' \in [rev : Nat, seq : Nat, kind : Kinds, conv : Ids \cup {None}]
  BY BumpType DEF update_latest_tool_turn, StoreInv, Kinds
<1>2. PICK i \in DOMAIN history[c] :
          history' = [history EXCEPT ![c] =
                         [history[c] EXCEPT ![i] = Finished(history[c][i])]]
  BY DEF update_latest_tool_turn
<1> DEFINE h == history[c]
           turn == Finished(h[i])
<1>3. h \in Seq(Turn) /\ i \in 1 .. Len(h) /\ Len(h) \in Nat
  BY <1>2 DEF StoreInv, TypeOK
<1>4. turn \in Turn
  <2>1. h[i] \in Turn
    BY <1>3
  <2> QED
    BY <2>1 DEF Turn, Finished
<1>5. history' = [history EXCEPT ![c] = [h EXCEPT ![i] = turn]]
  BY <1>2
<1>6. c \in convs
  <2>1. h # <<>>
    BY <1>3
  <2> QED
    BY <2>1 DEF StoreInv, NoOrphanTurns
<1> HIDE DEF turn, h
<1>7. [h EXCEPT ![i] = turn] \in Seq(Turn)
  BY <1>3, <1>4
<1> DEFINE new == [h EXCEPT ![i] = turn]
<1>8. new \in Seq(Turn) /\ history' = [history EXCEPT ![c] = new]
  BY <1>5, <1>7
<1> HIDE DEF new
<1>9. UNCHANGED <<convs, lastId, active, stuck>>
  BY DEF update_latest_tool_turn
<1> QED
  BY <1>1, <1>6, <1>8, <1>9
     DEF StoreKept, StoreInv, TypeOK, ActiveExists, NoOrphanTurns, IdsGivenOut

\* The buttons of the workspace.
LEMMA CreateKeepsStore ==
    ASSUME StoreInv, Create
    PROVE  StoreKept'
BY DEF Create, new_conversation, LoopFree, StoreKept, StoreInv, TypeOK, ActiveExists,
   NoOrphanTurns, IdsGivenOut, Ids

LEMMA ActivateKeepsStore ==
    ASSUME StoreInv, NEW c \in Ids, Activate(c)
    PROVE  StoreKept'
BY DEF Activate, set_active_conversation, StoreKept, StoreInv, TypeOK, ActiveExists,
   NoOrphanTurns, IdsGivenOut

LEMMA ClearKeepsStore ==
    ASSUME StoreInv, NEW c \in Ids, Clear(c)
    PROVE  StoreKept'
<1>1. <<>> \in Seq(Turn)
  OBVIOUS
<1> QED
  BY <1>1 DEF Clear, clear_conversation, StoreKept, StoreInv, TypeOK, ActiveExists,
     NoOrphanTurns, IdsGivenOut

\* A conversation is only deleted when another one can become the active one.
LEMMA DeleteKeepsStore ==
    ASSUME StoreInv, NEW c \in Ids, Delete(c)
    PROVE  StoreKept'
<1> DEFINE rest == convs \ {c}
<1>1. rest # {}
  BY OthersRemain DEF Delete, StoreInv
<1>2. /\ history' = [history EXCEPT ![c] = <<>>]
      /\ convs' = rest
      /\ stuck' = FALSE
      /\ UNCHANGED lastId
  BY <1>1 DEF Delete, delete_conversation
<1>3. active' \in rest
  <2>1. CASE active = c
    BY <1>1, <2>1 DEF Delete, delete_conversation
  <2>2. CASE active # c
    BY <2>2 DEF Delete, delete_conversation, StoreInv, ActiveExists
  <2> QED
    BY <2>1, <2>2
<1>4. <<>> \in Seq(Turn)
  OBVIOUS
<1> QED
  BY <1>2, <1>3, <1>4 DEF StoreKept, StoreInv, TypeOK, ActiveExists, NoOrphanTurns, IdsGivenOut

-----------------------------------------------------------------------------
(* The invariant is kept *)

\* A typed message.
LEMMA TypedKeepsStore ==
    ASSUME StoreInv, NEW m \in Typed,
           \/ Answer(m)
           \/ \E c \in (1 .. lastId) \cup {None}, tool \in BOOLEAN : Ask(m, c, tool)
    PROVE  StoreInv'
<1> USE DEF TypedPlaces
<1>0. /\ TypeOK /\ typed[m].to \in Ids \cup {None}
      /\ StoreKept
  BY DEF StoreInv, TypeOK, StoreKept
<1>1. ASSUME StoreKept', UNCHANGED <<spoken, restarts>>, busy' \in Typed \cup {None},
             live' \in [rev : Nat, seq : Nat, kind : Kinds, conv : Ids \cup {None}],
             typed' \in [Typed -> [at : TypedPlaces, to : Ids \cup {None}, tool : BOOLEAN,
                                   user : Ids \cup {None}]]
      PROVE  StoreInv'
  BY <1>0, <1>1 DEF StoreKept, StoreInv, TypeOK
<1>2. ASSUME UNCHANGED store PROVE StoreKept'
  BY <1>0, <1>2 DEF store, StoreKept, ActiveExists, NoOrphanTurns, IdsGivenOut
<1>3. CASE \E c \in (1 .. lastId) \cup {None}, tool \in BOOLEAN : Ask(m, c, tool)
  <2> PICK c \in (1 .. lastId) \cup {None}, tool \in BOOLEAN : Ask(m, c, tool)
    BY <1>3
  <2> DEFINE r == [typed[m] EXCEPT !.at = "generated", !.to = c, !.tool = tool]
  <2>1. c \in Ids \cup {None}
    BY <1>0 DEF StoreKept, Ids
  <2>2. r \in [at : TypedPlaces, to : Ids \cup {None}, tool : BOOLEAN, user : Ids \cup {None}]
    <3>1. typed[m] \in [at : TypedPlaces, to : Ids \cup {None}, tool : BOOLEAN, user : Ids \cup {None}]
      BY <1>0 DEF TypeOK
    <3> QED
      BY <2>1, <3>1
  <2>3. typed' = [typed EXCEPT ![m] = r]
    BY DEF Ask
  <2>4. live' \in [rev : Nat, seq : Nat, kind : Kinds, conv : Ids \cup {None}]
    <3>1. Bump("agent_action", c) \in [rev : Nat, seq : Nat, kind : Kinds, conv : Ids \cup {None}]
      BY <1>0, <2>1, BumpType DEF Kinds
    <3>2. live' = live \/ live' = Bump("agent_action", c)
      BY DEF Ask
    <3> QED
      BY <1>0, <3>1, <3>2 DEF TypeOK
  <2>5. /\ UNCHANGED <<store, spoken, restarts>> /\ busy' = m
    BY DEF Ask
  <2> HIDE DEF r
  <2>6. typed' \in [Typed -> [at : TypedPlaces, to : Ids \cup {None}, tool : BOOLEAN,
                              user : Ids \cup {None}]]
    BY <1>0, <2>2, <2>3 DEF TypeOK
  <2> QED
    BY <1>1, <1>2, <2>4, <2>5, <2>6
<1>4. ASSUME NEW at \in TypedPlaces, Step(m, at), busy' = None,
             UNCHANGED <<store, spoken, live, restarts>>
      PROVE  StoreInv'
  BY <1>0, <1>1, <1>2, <1>4, StepType DEF TypeOK
<1>5. CASE GenerateFails(m)
  BY <1>4, <1>5 DEF GenerateFails
<1>6. CASE Speak(m)
  BY <1>4, <1>6 DEF Speak
<1>7. CASE AppendRefused(m)
  BY <1>4, <1>7 DEF AppendRefused
<1>8. CASE AppendUser(m)
  <2> DEFINE r == [typed[m] EXCEPT !.at = "asked", !.user = Target(typed[m].to)]
  <2>1. /\ StoreKept'
        /\ live' \in [rev : Nat, seq : Nat, kind : Kinds, conv : Ids \cup {None}]
    BY <1>0, <1>8, AppendKeepsStore DEF AppendUser, Role
  <2>2. r \in [at : TypedPlaces, to : Ids \cup {None}, tool : BOOLEAN, user : Ids \cup {None}]
    <3>1. typed[m] \in [at : TypedPlaces, to : Ids \cup {None}, tool : BOOLEAN, user : Ids \cup {None}]
      BY <1>0 DEF TypeOK
    <3>2. Target(typed[m].to) \in Ids
      BY <1>0, TargetType
    <3> QED
      BY <3>1, <3>2
  <2>3. typed' = [typed EXCEPT ![m] = r] /\ busy' = m /\ UNCHANGED <<spoken, restarts>>
    BY <1>8 DEF AppendUser
  <2> HIDE DEF r
  <2>4. typed' \in [Typed -> [at : TypedPlaces, to : Ids \cup {None}, tool : BOOLEAN,
                              user : Ids \cup {None}]]
    BY <1>0, <2>2, <2>3 DEF TypeOK
  <2> QED
    BY <1>1, <2>1, <2>3, <2>4
<1>9. CASE AppendReply(m)
  <2>1. PICK card \in {"no", "open"} : append_turn(m, "assistant", card, typed[m].to)
    BY <1>9 DEF AppendReply
  <2>2. /\ StoreKept'
        /\ live' \in [rev : Nat, seq : Nat, kind : Kinds, conv : Ids \cup {None}]
    BY <1>0, <2>1, AppendKeepsStore DEF Role
  <2>3. Step(m, "answered") /\ busy' = None /\ UNCHANGED <<spoken, restarts>>
    BY <1>9 DEF AppendReply
  <2> QED
    BY <1>0, <1>1, <2>2, <2>3, StepType
<1> QED
  BY <1>3, <1>5, <1>6, <1>7, <1>8, <1>9 DEF Answer

\* An utterance.
LEMMA SpokenKeepsStore ==
    ASSUME StoreInv, NEW u \in Spoken, Hear(u) \/ Process(u)
    PROVE  StoreInv'
<1> USE DEF SpokenPlaces
<1>0. TypeOK /\ StoreKept
  BY DEF StoreInv, TypeOK, StoreKept
<1>1. ASSUME StoreKept', UNCHANGED <<busy, typed, restarts>>,
             live' \in [rev : Nat, seq : Nat, kind : Kinds, conv : Ids \cup {None}],
             spoken' \in [Spoken -> [at : SpokenPlaces, user : Ids \cup {None}]]
      PROVE  StoreInv'
  BY <1>0, <1>1 DEF StoreKept, StoreInv, TypeOK
<1>2. ASSUME UNCHANGED store PROVE StoreKept'
  BY <1>0, <1>2 DEF store, StoreKept, ActiveExists, NoOrphanTurns, IdsGivenOut
<1>3. ASSUME set_status \/ set_snapshot \/ UNCHANGED live
      PROVE  live' \in [rev : Nat, seq : Nat, kind : Kinds, conv : Ids \cup {None}]
  <2>1. /\ Bump("status", None) \in [rev : Nat, seq : Nat, kind : Kinds, conv : Ids \cup {None}]
        /\ Bump("snapshot", None) \in [rev : Nat, seq : Nat, kind : Kinds, conv : Ids \cup {None}]
    BY <1>0, BumpType DEF Kinds
  <2> DEFINE b == Bump("snapshot", None)
  <2>2. [b EXCEPT !.seq = b.seq + 1] \in [rev : Nat, seq : Nat, kind : Kinds, conv : Ids \cup {None}]
    BY <2>1
  <2> HIDE DEF b
  <2>3. CASE set_snapshot
    BY <2>2, <2>3 DEF set_snapshot, b
  <2> QED
    BY <1>0, <1>3, <2>1, <2>3 DEF set_status, TypeOK
<1>4. ASSUME NEW at \in SpokenPlaces, Reach(u, at), UNCHANGED <<store, busy, typed, restarts>>,
             set_status \/ set_snapshot \/ UNCHANGED live
      PROVE  StoreInv'
  BY <1>0, <1>1, <1>2, <1>3, <1>4, ReachType
<1>5. CASE Hear(u)
  BY <1>4, <1>5 DEF Hear
<1>6. CASE NotActedOn(u)
  BY <1>4, <1>6 DEF NotActedOn
<1>7. CASE NoSpokenReply(u)
  BY <1>4, <1>7 DEF NoSpokenReply
<1>8. CASE ShowUtterance(u)
  BY <1>4, <1>8 DEF ShowUtterance
<1>9. CASE EndProcessing(u)
  BY <1>4, <1>9 DEF EndProcessing
<1>10. CASE AppendSpokenUser(u)
  <2>1. /\ StoreKept'
        /\ live' \in [rev : Nat, seq : Nat, kind : Kinds, conv : Ids \cup {None}]
    BY <1>0, <1>10, AppendKeepsStore DEF AppendSpokenUser, Role
  <2>2. spoken' \in [Spoken -> [at : SpokenPlaces, user : Ids \cup {None}]]
    BY <1>0, <1>10 DEF AppendSpokenUser, TypeOK
  <2> QED
    BY <1>1, <1>10, <2>1, <2>2 DEF AppendSpokenUser
<1>11. CASE AppendSpokenReply(u)
  <2>1. /\ StoreKept'
        /\ live' \in [rev : Nat, seq : Nat, kind : Kinds, conv : Ids \cup {None}]
    BY <1>0, <1>11, AppendKeepsStore DEF AppendSpokenReply, Role
  <2> QED
    BY <1>0, <1>1, <1>11, <2>1, ReachType DEF AppendSpokenReply
<1> QED
  BY <1>5, <1>6, <1>7, <1>8, <1>9, <1>10, <1>11 DEF Process

\* The workspace and the cards.
LEMMA WorkspaceKeepsStore ==
    ASSUME StoreInv, Workspace
    PROVE  StoreInv'
<1>0. TypeOK
  BY DEF StoreInv
<1>1. ASSUME StoreKept', UNCHANGED <<busy, typed, spoken, restarts>>,
             live' \in [rev : Nat, seq : Nat, kind : Kinds, conv : Ids \cup {None}]
      PROVE  StoreInv'
  BY <1>0, <1>1 DEF StoreKept, StoreInv, TypeOK
<1>2. ASSUME UNCHANGED live
      PROVE  live' \in [rev : Nat, seq : Nat, kind : Kinds, conv : Ids \cup {None}]
  BY <1>0, <1>2 DEF TypeOK
<1>3. CASE Create
  BY <1>1, <1>2, <1>3, CreateKeepsStore DEF Create
<1>4. ASSUME NEW c \in Ids, Activate(c) PROVE StoreInv'
  BY <1>1, <1>2, <1>4, ActivateKeepsStore DEF Activate
<1>5. ASSUME NEW c \in Ids, Clear(c) PROVE StoreInv'
  BY <1>1, <1>2, <1>5, ClearKeepsStore DEF Clear
<1>6. ASSUME NEW c \in Ids, Delete(c) PROVE StoreInv'
  BY <1>1, <1>2, <1>6, DeleteKeepsStore DEF Delete
<1>7. ASSUME NEW c \in Ids, CardUpdate(c) PROVE StoreInv'
  BY <1>1, <1>7, CardKeepsStore DEF CardUpdate
<1> QED
  BY <1>3, <1>4, <1>5, <1>6, <1>7 DEF Workspace

\* What is stored stays when the process stops.
LEMMA RestartKeepsStore ==
    ASSUME StoreInv, Restart
    PROVE  StoreInv'
<1>0. TypeOK
  BY DEF StoreInv
<1>1. typed' \in [Typed -> [at : TypedPlaces, to : Ids \cup {None}, tool : BOOLEAN,
                            user : Ids \cup {None}]]
  <2> DEFINE r(m) == [typed[m] EXCEPT !.at = "failed"]
             T == [at : TypedPlaces, to : Ids \cup {None}, tool : BOOLEAN, user : Ids \cup {None}]
  <2>1. \A m \in Typed : typed[m] \in T
    BY <1>0 DEF TypeOK
  <2>2. \A m \in Typed : r(m) \in T
    <3> SUFFICES ASSUME NEW m \in Typed PROVE r(m) \in T
      OBVIOUS
    <3>1. typed[m] \in T
      BY <2>1
    <3> QED
      BY <3>1 DEF TypedPlaces
  <2>3. typed' = [m \in Typed |-> IF typed[m].at \in {"generated", "speaking", "asked"}
                                 THEN r(m) ELSE typed[m]]
    BY DEF Restart
  <2> HIDE DEF r, T
  <2>4. typed' \in [Typed -> T]
    BY <2>1, <2>2, <2>3
  <2> QED
    BY <2>4 DEF T
<1>2. spoken' \in [Spoken -> [at : SpokenPlaces, user : Ids \cup {None}]]
  <2> DEFINE r(u) == [spoken[u] EXCEPT !.at = "done"]
             T == [at : SpokenPlaces, user : Ids \cup {None}]
  <2>1. \A u \in Spoken : spoken[u] \in T
    BY <1>0 DEF TypeOK
  <2>2. \A u \in Spoken : r(u) \in T
    <3> SUFFICES ASSUME NEW u \in Spoken PROVE r(u) \in T
      OBVIOUS
    <3>1. spoken[u] \in T
      BY <2>1
    <3> QED
      BY <3>1 DEF SpokenPlaces
  <2>3. spoken' = [u \in Spoken |-> IF spoken[u].at = "new" THEN spoken[u] ELSE r(u)]
    BY DEF Restart
  <2> HIDE DEF r, T
  <2>4. spoken' \in [Spoken -> T]
    BY <2>1, <2>2, <2>3
  <2> QED
    BY <2>4 DEF T
<1>3. live' \in [rev : Nat, seq : Nat, kind : Kinds, conv : Ids \cup {None}]
  BY DEF Restart, Fresh, Kinds
<1>4. /\ UNCHANGED <<convs, lastId, active, history>> /\ stuck' = FALSE /\ busy' = None
      /\ restarts' = restarts + 1
  BY DEF Restart
<1>5. restarts' \in Nat
  BY <1>0, <1>4 DEF TypeOK
<1>6. TypeOK'
  BY <1>0, <1>1, <1>2, <1>3, <1>4, <1>5 DEF TypeOK
<1> QED
  BY <1>4, <1>6 DEF StoreInv, ActiveExists, NoOrphanTurns, IdsGivenOut

LEMMA StoreStep == StoreInv /\ [Next]_vars => StoreInv'
<1> SUFFICES ASSUME StoreInv, [Next]_vars PROVE StoreInv'
  OBVIOUS
<1>1. CASE UNCHANGED vars
  BY <1>1 DEF StoreInv, TypeOK, ActiveExists, NoOrphanTurns, IdsGivenOut, vars, store
<1> QED
  BY <1>1, TypedKeepsStore, SpokenKeepsStore, WorkspaceKeepsStore, RestartKeepsStore DEF Next

LEMMA StoreInit == Init => StoreInv
<1> SUFFICES ASSUME Init PROVE StoreInv
  OBVIOUS
<1>1. typed \in [Typed -> [at : TypedPlaces, to : Ids \cup {None}, tool : BOOLEAN,
                           user : Ids \cup {None}]]
  BY DEF Init, TypedPlaces
<1>2. spoken \in [Spoken -> [at : SpokenPlaces, user : Ids \cup {None}]]
  BY DEF Init, SpokenPlaces
<1>3. live \in [rev : Nat, seq : Nat, kind : Kinds, conv : Ids \cup {None}]
  BY DEF Init, Fresh, Kinds
<1>4. 1 \in Ids /\ history \in [Ids -> Seq(Turn)]
  BY DEF Init, Ids
<1>5. TypeOK
  BY <1>1, <1>2, <1>3, <1>4 DEF Init, TypeOK
<1> QED
  BY <1>5 DEF Init, StoreInv, ActiveExists, NoOrphanTurns, IdsGivenOut

LEMMA StoreAlways == Spec => []StoreInv
BY StoreInit, StoreStep, PTL DEF Spec

\* The tables, the exchanges and the live state keep their types.
THEOREM StoreTypeCorrect == Spec => []TypeOK
<1>1. StoreInv => TypeOK
  BY DEF StoreInv
<1> QED
  BY <1>1, StoreAlways, PTL

\* There is always a conversation to be in, and the store never waits for itself.
THEOREM ActiveAlwaysExists == Spec => []ActiveExists
<1>1. StoreInv => ActiveExists
  BY DEF StoreInv
<1> QED
  BY <1>1, StoreAlways, PTL

\* No turn outlives its conversation.
THEOREM TurnsGoWithTheirConversation == Spec => []NoOrphanTurns
<1>1. StoreInv => NoOrphanTurns
  BY DEF StoreInv
<1> QED
  BY <1>1, StoreAlways, PTL

-----------------------------------------------------------------------------
(* Ids *)

\* Only a new id enters the table.
LEMMA OnlyNewIds ==
    ASSUME StoreInv, [Next]_vars, NEW c \in convs', c \notin convs
    PROVE  c = lastId + 1
<1>1. ASSUME UNCHANGED store PROVE FALSE
  BY <1>1 DEF store
<1>2. ASSUME NEW x, NEW role, NEW card, NEW d, append_turn(x, role, card, d) PROVE FALSE
  BY <1>2 DEF append_turn
<1>3. CASE Create
  BY <1>3 DEF Create, new_conversation
<1>4. ASSUME NEW d \in Ids, Activate(d) \/ Clear(d) \/ Delete(d) \/ CardUpdate(d) PROVE FALSE
  BY <1>4 DEF Activate, Clear, Delete, CardUpdate, set_active_conversation, clear_conversation,
     delete_conversation, update_latest_tool_turn
<1>5. ASSUME NEW m \in Typed, Answer(m) PROVE FALSE
  BY <1>1, <1>2, <1>5 DEF Answer, GenerateFails, Speak, AppendUser, AppendReply, AppendRefused
<1>6. ASSUME NEW m \in Typed, NEW d, NEW tool, Ask(m, d, tool) PROVE FALSE
  BY <1>1, <1>6 DEF Ask
<1>7. ASSUME NEW u \in Spoken, Hear(u) \/ Process(u) PROVE FALSE
  BY <1>1, <1>2, <1>7 DEF Hear, Process, NotActedOn, AppendSpokenUser, AppendSpokenReply,
     NoSpokenReply, ShowUtterance, EndProcessing
<1>8. ASSUME Restart \/ UNCHANGED vars PROVE FALSE
  BY <1>8 DEF Restart, vars, store
<1> QED
  BY <1>3, <1>4, <1>5, <1>6, <1>7, <1>8 DEF Next, Workspace

\* A deleted conversation's id is never given out again.
THEOREM DeletedStayDeleted == Spec => DeletedStaysDeleted
<1>1. StoreInv /\ [Next]_vars =>
        [\A c \in Ids : c \notin convs /\ c <= lastId => c \notin convs']_vars
  <2> SUFFICES ASSUME StoreInv, [Next]_vars, NEW c \in Ids, c \notin convs, c <= lastId, c \in convs'
               PROVE  FALSE
    OBVIOUS
  <2>1. c = lastId + 1
    BY OnlyNewIds
  <2>2. c \in Nat /\ lastId \in Nat
    BY DEF StoreInv, TypeOK, Ids
  <2> QED
    BY <2>1, <2>2
<1> QED
  BY <1>1, StoreAlways, PTL DEF Spec, DeletedStaysDeleted

-----------------------------------------------------------------------------
(* The turns of an exchange *)

\* The turns of x in c are the ones they were, maybe with another card.
Same(x, c) ==
    /\ Of(x, c)' = Of(x, c)
    /\ \A i \in Of(x, c) : history'[c][i].role = history[c][i].role

\* The turns of x in t are the ones they were and a newer one.
Added(x, role, t) ==
    \E n \in Nat :
        /\ Of(x, t)' = Of(x, t) \cup {n}
        /\ history'[t][n].role = role
        /\ \A i \in Of(x, t) : i \in Nat /\ i < n /\ history'[t][i].role = history[t][i].role

LEMMA UntouchedTurns ==
    ASSUME NEW x, NEW c \in Ids, history'[c] = history[c]
    PROVE  Same(x, c)
BY DEF Same, Of

\* Only what appends a turn and where it goes is another.
LEMMA AppendedTurn ==
    ASSUME StoreInv, NEW x \in Typed \cup Spoken, NEW role \in Role,
           NEW card \in {"no", "open", "final"}, NEW c \in Ids \cup {None},
           append_turn(x, role, card, c)
    PROVE  /\ Target(c) \in convs /\ Target(c) \in Ids
           /\ UNCHANGED <<convs, lastId, active, stuck>>
           /\ Added(x, role, Target(c))
           /\ \A y \in Typed \cup Spoken, d \in Ids : y # x \/ d # Target(c) => Same(y, d)
<1>0. PICK t \in Ids : t = Target(c)
  BY TargetType DEF StoreInv
<1>1. /\ t \in convs
      /\ UNCHANGED <<convs, lastId, active, stuck>>
      /\ history' = [history EXCEPT ![t] = Append(history[t], [of |-> x, role |-> role, card |-> card])]
  BY <1>0 DEF append_turn
<1> DEFINE new == [of |-> x, role |-> role, card |-> card]
           h == history[t]
           n == Len(h) + 1
<1>2. h \in Seq(Turn) /\ new \in Turn /\ history \in [Ids -> Seq(Turn)]
  BY DEF StoreInv, TypeOK, Turn
<1>3. /\ \A d \in Ids \ {t} : history'[d] = history[d]
      /\ history'[t] = Append(h, new)
  BY <1>1, <1>2
<1>4. PICK m \in Nat : m = n
  BY <1>2
<1>5. /\ DOMAIN history'[t] = DOMAIN h \cup {m} /\ history'[t][m] = new
      /\ \A i \in DOMAIN h : i \in Nat /\ i < m /\ history'[t][i] = h[i]
  <2> HIDE DEF new
  <2> QED
    BY <1>2, <1>3, <1>4
<1>6. Added(x, role, t)
  <2>1. Of(x, t)' = Of(x, t) \cup {m}
    BY <1>5 DEF Of
  <2> QED
    BY <1>5, <2>1 DEF Added, Of
<1>7. ASSUME NEW y \in Typed \cup Spoken, y # x PROVE Same(y, t)
  <2>1. Of(y, t)' = Of(y, t)
    BY <1>5, <1>7 DEF Of
  <2> QED
    BY <1>5, <2>1 DEF Same, Of
<1>8. ASSUME NEW y \in Typed \cup Spoken, NEW d \in Ids, d # t PROVE Same(y, d)
  BY <1>3, <1>8, UntouchedTurns
<1> QED
  BY <1>0, <1>1, <1>6, <1>7, <1>8

\* A card that is rewritten is the card of the same turn.
LEMMA RewrittenTurn ==
    ASSUME StoreInv, NEW c \in Ids, update_latest_tool_turn(c)
    PROVE  /\ UNCHANGED <<convs, lastId, active, stuck>>
           /\ \A y \in Typed \cup Spoken, d \in Ids : Same(y, d)
<1>1. PICK i \in DOMAIN history[c] :
          history' = [history EXCEPT ![c] =
                         [history[c] EXCEPT ![i] = Finished(history[c][i])]]
  BY DEF update_latest_tool_turn
<1>2. UNCHANGED <<convs, lastId, active, stuck>>
  BY DEF update_latest_tool_turn
<1> DEFINE h == history[c]
<1>3. PICK new : new = Finished(h[i])
  OBVIOUS
<1>4. new.of = h[i].of /\ new.role = h[i].role
  <2>1. h \in Seq(Turn)
    BY DEF StoreInv, TypeOK
  <2>2. h[i] \in Turn
    BY <1>1, <2>1
  <2> QED
    BY <1>3, <2>2 DEF Finished, Turn
<1>5. /\ history \in [Ids -> Seq(Turn)]
      /\ \A d \in Ids \ {c} : history'[d] = history[d]
      /\ history'[c] = [h EXCEPT ![i] = new]
  BY <1>1, <1>3 DEF StoreInv, TypeOK
<1>6. /\ DOMAIN history'[c] = DOMAIN h
      /\ \A k \in DOMAIN h : history'[c][k].of = h[k].of /\ history'[c][k].role = h[k].role
  BY <1>1, <1>4, <1>5
<1>7. ASSUME NEW y \in Typed \cup Spoken PROVE Same(y, c)
  <2>1. Of(y, c)' = Of(y, c)
    BY <1>6 DEF Of
  <2> QED
    BY <1>6, <2>1 DEF Same, Of
<1>8. ASSUME NEW y \in Typed \cup Spoken, NEW d \in Ids, d # c PROVE Same(y, d)
  BY <1>5, <1>8, UntouchedTurns
<1> QED
  BY <1>2, <1>7, <1>8

\* A conversation that is cleared or deleted has no turns, the others keep theirs.
LEMMA EmptiedTurns ==
    ASSUME StoreInv, NEW c \in Ids, history' = [history EXCEPT ![c] = <<>>]
    PROVE  \A y \in Typed \cup Spoken, d \in Ids : Same(y, d) \/ Of(y, d)' = {}
<1>1. /\ \A d \in Ids \ {c} : history'[d] = history[d]
      /\ history'[c] = <<>>
  BY DEF StoreInv, TypeOK
<1>2. ASSUME NEW y \in Typed \cup Spoken PROVE Of(y, c)' = {}
  BY <1>1 DEF Of
<1> QED
  BY <1>1, <1>2, UntouchedTurns

-----------------------------------------------------------------------------
(* One exchange *)

\* ExchangeInv, of one message.
TypedOK(m) ==
    /\ \A c \in Ids :
          \/ Of(m, c) = {}
          \/ /\ typed[m].at = "answered" /\ c = typed[m].user /\ typed[m].to \in {c, None}
             /\ Both(m, c)
          \/ /\ typed[m].at = "asked" \/ (typed[m].at = "failed" /\ restarts > 0)
             /\ c = typed[m].user
             /\ Only(m, c, "user")
    /\ typed[m].at \in {"new", "generated", "speaking"} => \A c \in Ids : Of(m, c) = {}
    /\ typed[m].at \in {"generated", "asked"} => busy = m
    /\ typed[m].at = "asked" =>
          /\ typed[m].user \in convs /\ Target(typed[m].to) = typed[m].user
          /\ Only(m, typed[m].user, "user")

\* ExchangeInv, of one utterance.
SpokenOK(u) ==
    /\ \A c, d \in Ids : \A i \in Of(u, c), j \in Of(u, d) :
          /\ spoken[u].user # None
          /\ history[c][i].role = history[d][j].role => c = d /\ i = j
          /\ c = d /\ history[c][i].role = "user" /\ history[d][j].role = "assistant" => i < j
    /\ spoken[u].at \in {"new", "thinking"} => \A c \in Ids : Of(u, c) = {}
    /\ spoken[u].at = "kept" =>
          /\ spoken[u].user # None
          /\ \A c \in Ids : \A i \in Of(u, c) : history[c][i].role = "user"

LEMMA OneByOne ==
    /\ ExchangeInv <=> (\A m \in Typed : TypedOK(m)) /\ (\A u \in Spoken : SpokenOK(u))
    /\ ExchangeInv' <=> (\A m \in Typed : TypedOK(m)') /\ (\A u \in Spoken : SpokenOK(u)')
BY DEF ExchangeInv, TypedWhole, SpokenOnce, TypedSteps, SpokenSteps, TypedOK, SpokenOK

LEMMA SameOnly ==
    ASSUME NEW x, NEW c, NEW role, Same(x, c), Only(x, c, role)
    PROVE  Only(x, c, role)'
BY DEF Same, Only

LEMMA SameBoth ==
    ASSUME NEW x, NEW c, Same(x, c), Both(x, c)
    PROVE  Both(x, c)'
BY DEF Same, Both

\* A message that no step of its own moves.  While its handler is in the middle
\* of the answer, nothing but a turn is stored.
LEMMA TypedRests ==
    ASSUME NEW m \in Typed, TypedOK(m), typed'[m] = typed[m], restarts' = restarts,
           \A c \in Ids : Same(m, c) \/ Of(m, c)' = {},
           \/ typed[m].at \notin {"generated", "asked"}
           \/ UNCHANGED <<busy, convs, active>> /\ \A c \in Ids : Same(m, c),
           convs \in SUBSET Ids
    PROVE  TypedOK(m)'
<1>1. ASSUME NEW c \in Ids
      PROVE  \/ Of(m, c)' = {}
             \/ /\ typed'[m].at = "answered" /\ c = typed'[m].user /\ typed'[m].to \in {c, None}
                /\ Both(m, c)'
             \/ /\ typed'[m].at = "asked" \/ (typed'[m].at = "failed" /\ restarts' > 0)
                /\ c = typed'[m].user
                /\ Only(m, c, "user")'
  <2>1. CASE Of(m, c) = {}
    BY <2>1 DEF Same
  <2>2. CASE Of(m, c)' = {}
    BY <2>2
  <2>3. CASE Of(m, c) # {} /\ Same(m, c)
    BY <2>3, SameOnly, SameBoth DEF TypedOK
  <2> QED
    BY <2>1, <2>2, <2>3
<1>2. typed'[m].at \in {"new", "generated", "speaking"} => \A c \in Ids : Of(m, c)' = {}
  BY DEF TypedOK, Same
<1>3. typed'[m].at \in {"generated", "asked"} => busy' = m
  BY DEF TypedOK
<1>4. ASSUME typed'[m].at = "asked"
      PROVE  /\ typed'[m].user \in convs' /\ Target(typed[m].to)' = typed'[m].user
             /\ Only(m, typed[m].user, "user")'
  <2>1. /\ typed[m].user \in convs /\ Target(typed[m].to) = typed[m].user
        /\ Only(m, typed[m].user, "user")
        /\ UNCHANGED <<convs, active>> /\ Same(m, typed[m].user)
    BY <1>4 DEF TypedOK
  <2>2. PICK c \in Ids : c = typed[m].user
    BY <2>1
  <2>3. Only(m, c, "user")'
    BY <2>1, <2>2, SameOnly
  <2>4. typed'[m].user = c
    BY <2>2
  <2>5. Target(typed[m].to)' = typed'[m].user
    BY <2>1 DEF Target
  <2> QED
    BY <2>1, <2>2, <2>3, <2>4, <2>5
<1> QED
  BY <1>1, <1>2, <1>3, <1>4 DEF TypedOK

\* An utterance that no step of its own moves.
LEMMA SpokenRests ==
    ASSUME NEW u \in Spoken, SpokenOK(u), spoken'[u] = spoken[u],
           \A c \in Ids : Same(u, c) \/ Of(u, c)' = {}
    PROVE  SpokenOK(u)'
BY DEF SpokenOK, Same

-----------------------------------------------------------------------------
(* The steps *)

LEMMA TypedKeepsExchanges ==
    ASSUME StoreInv, ExchangeInv, NEW m \in Typed,
           \/ Answer(m)
           \/ \E c \in (1 .. lastId) \cup {None}, tool \in BOOLEAN : Ask(m, c, tool)
    PROVE  ExchangeInv'
<1>0. /\ TypedOK(m) /\ m \in Typed \cup Spoken
      /\ m # None /\ None \notin Ids
      /\ \A m2 \in Typed : TypedOK(m2)
      /\ \A u \in Spoken : SpokenOK(u) /\ u # m
      /\ convs \in SUBSET Ids
      /\ typed[m].to \in Ids \cup {None}
      /\ \A m2 \in Typed : typed[m2] \in [at : TypedPlaces, to : Ids \cup {None},
                                         tool : BOOLEAN, user : Ids \cup {None}]
      /\ DOMAIN typed = Typed
  BY OneByOne DEF StoreInv, TypeOK, Ids
\* The handler of no other message is in the middle of an answer.
<1>1. \A m2 \in Typed \ {m} : typed[m2].at \notin {"generated", "asked"}
  <2> SUFFICES ASSUME NEW m2 \in Typed, m2 # m, typed[m2].at \in {"generated", "asked"}
               PROVE  FALSE
    OBVIOUS
  <2>1. busy = m2
    BY <1>0 DEF TypedOK
  <2>2. busy = None \/ busy = m
    BY <1>0 DEF TypedOK, Answer, GenerateFails, Speak, AppendUser, AppendReply, AppendRefused,
       Ask, LoopFree
  <2> QED
    BY <2>1, <2>2, NamesAssumption
\* The others, once it is known what became of m.
<1>2. ASSUME TypedOK(m)', UNCHANGED <<spoken, restarts>>,
             \A m2 \in Typed \ {m} : typed'[m2] = typed[m2],
             \A y \in (Typed \cup Spoken) \ {m}, c \in Ids : Same(y, c)
      PROVE  ExchangeInv'
  <2>1. ASSUME NEW m2 \in Typed, m2 # m PROVE TypedOK(m2)'
    BY <1>0, <1>1, <1>2, <2>1, TypedRests
  <2>2. ASSUME NEW u \in Spoken PROVE SpokenOK(u)'
    BY <1>0, <1>2, <2>2, SpokenRests
  <2> QED
    BY <1>2, <2>1, <2>2, OneByOne
\* A step that stores nothing leaves m with nothing stored.
<1>3. ASSUME UNCHANGED <<store, spoken, restarts>>, \A c \in Ids : Of(m, c) = {},
             typed'[m].at \in {"generated", "speaking", "failed"},
             typed'[m].at = "generated" => busy' = m,
             \A m2 \in Typed \ {m} : typed'[m2] = typed[m2]
      PROVE  ExchangeInv'
  <2>1. \A y \in Typed \cup Spoken, c \in Ids : Same(y, c)
    BY <1>3, UntouchedTurns DEF store
  <2>2. \A c \in Ids : Of(m, c)' = {}
    BY <1>3, <2>1 DEF Same
  <2>3. TypedOK(m)'
    BY <1>3, <2>2 DEF TypedOK
  <2> QED
    BY <1>2, <1>3, <2>1, <2>3
<1>4. CASE \E c \in (1 .. lastId) \cup {None}, tool \in BOOLEAN : Ask(m, c, tool)
  <2> PICK c \in (1 .. lastId) \cup {None}, tool \in BOOLEAN : Ask(m, c, tool)
    BY <1>4
  <2> DEFINE r == [typed[m] EXCEPT !.at = "generated", !.to = c, !.tool = tool]
  <2>1. r.at = "generated"
    BY <1>0
  <2>2. typed' = [typed EXCEPT ![m] = r]
    BY DEF Ask
  <2> HIDE DEF r
  <2>3. typed'[m].at = "generated" /\ \A m2 \in Typed \ {m} : typed'[m2] = typed[m2]
    BY <1>0, <2>1, <2>2
  <2> QED
    BY <1>0, <1>3, <2>3 DEF Ask, TypedOK
<1>5. ASSUME NEW at \in {"speaking", "failed"}, Step(m, at)
      PROVE  typed'[m].at = at /\ \A m2 \in Typed \ {m} : typed'[m2] = typed[m2]
  BY <1>0, <1>5 DEF Step
<1>6. CASE GenerateFails(m)
  BY <1>0, <1>3, <1>5, <1>6 DEF GenerateFails, TypedOK
<1>7. CASE Speak(m)
  BY <1>0, <1>3, <1>5, <1>7 DEF Speak, TypedOK
\* The conversation of a message that is stored is not gone.
<1>8. CASE AppendRefused(m)
  <2>1. typed[m].at # "asked"
    BY <1>0, <1>8 DEF AppendRefused, TypedOK
  <2>2. \A c \in Ids : Of(m, c) = {}
    BY <1>0, <1>8, <2>1 DEF AppendRefused, TypedOK
  <2> QED
    BY <1>3, <1>5, <1>8, <2>2 DEF AppendRefused
<1>9. CASE AppendUser(m)
  <2> PICK t : t = Target(typed[m].to)
    OBVIOUS
  <2>1. /\ t \in convs /\ t \in Ids
        /\ UNCHANGED <<convs, active>>
        /\ Added(m, "user", t)
        /\ \A y \in Typed \cup Spoken, d \in Ids : y # m \/ d # t => Same(y, d)
    BY <1>0, <1>9, AppendedTurn DEF AppendUser, Role
  <2>2. \A c \in Ids : Of(m, c) = {}
    BY <1>0, <1>9 DEF AppendUser, TypedOK
  <2>3. Only(m, t, "user")' /\ \A c \in Ids \ {t} : Of(m, c)' = {}
    BY <1>0, <2>1, <2>2 DEF Added, Only, Same
  <2> DEFINE r == [typed[m] EXCEPT !.at = "asked", !.user = t]
  <2>4. r.at = "asked" /\ r.user = t /\ r.to = typed[m].to
    BY <1>0
  <2>5. typed' = [typed EXCEPT ![m] = r]
    BY <1>9 DEF AppendUser
  <2> HIDE DEF r
  <2>6. /\ typed'[m].at = "asked" /\ typed'[m].user = t /\ typed'[m].to = typed[m].to
        /\ \A m2 \in Typed \ {m} : typed'[m2] = typed[m2]
    BY <1>0, <2>4, <2>5
  <2>7. Target(typed[m].to)' = t
    BY <2>1, <2>6 DEF Target
  <2>8. TypedOK(m)'
    <3>1. busy' = m
      BY <1>9 DEF AppendUser
    <3>2. Only(m, typed[m].user, "user")'
      BY <2>3, <2>6
    <3> QED
      BY <2>1, <2>3, <2>6, <2>7, <3>1, <3>2 DEF TypedOK
  <2> QED
    BY <1>0, <1>2, <1>9, <2>1, <2>6, <2>8 DEF AppendUser
<1>10. CASE AppendReply(m)
  <2> PICK t : t = Target(typed[m].to)
    OBVIOUS
  <2>1. PICK card \in {"no", "open"} : append_turn(m, "assistant", card, typed[m].to)
    BY <1>10 DEF AppendReply
  <2>2. /\ t \in convs /\ t \in Ids
        /\ UNCHANGED <<convs, active>>
        /\ Added(m, "assistant", t)
        /\ \A y \in Typed \cup Spoken, d \in Ids : y # m \/ d # t => Same(y, d)
    BY <1>0, <2>1, AppendedTurn DEF Role
  <2>3. /\ typed[m].user = t /\ typed[m].to \in {t, None}
        /\ Only(m, t, "user") /\ \A c \in Ids \ {t} : Of(m, c) = {}
    BY <1>0, <1>10 DEF AppendReply, TypedOK, Target
  <2>4. Both(m, t)'
    <3>1. PICK i \in Of(m, t) : Of(m, t) = {i} /\ history[t][i].role = "user"
      BY <2>3 DEF Only
    <3> QED
      BY <2>2, <3>1 DEF Added, Both
  <2>5. \A c \in Ids \ {t} : Of(m, c)' = {}
    BY <1>0, <2>2, <2>3 DEF Same
  <2> DEFINE r == [typed[m] EXCEPT !.at = "answered"]
  <2>6. r.at = "answered" /\ r.user = t /\ r.to = typed[m].to
    BY <1>0, <2>3
  <2>7. typed' = [typed EXCEPT ![m] = r]
    BY <1>10 DEF AppendReply, Step
  <2> HIDE DEF r
  <2>8. /\ typed'[m].at = "answered" /\ typed'[m].user = t /\ typed'[m].to = typed[m].to
        /\ \A m2 \in Typed \ {m} : typed'[m2] = typed[m2]
    BY <1>0, <2>6, <2>7
  <2>9. TypedOK(m)'
    BY <2>3, <2>4, <2>5, <2>8 DEF TypedOK
  <2> QED
    BY <1>0, <1>2, <1>10, <2>2, <2>8, <2>9 DEF AppendReply
<1> QED
  BY <1>4, <1>6, <1>7, <1>8, <1>9, <1>10 DEF Answer

LEMMA SpokenKeepsExchanges ==
    ASSUME StoreInv, ExchangeInv, NEW u \in Spoken, Hear(u) \/ Process(u)
    PROVE  ExchangeInv'
<1>0. /\ SpokenOK(u) /\ u \in Typed \cup Spoken
      /\ None \notin Ids
      /\ \A m \in Typed : TypedOK(m) /\ m # u
      /\ \A v \in Spoken : SpokenOK(v)
      /\ convs \in SUBSET Ids /\ active \in Ids
      /\ \A v \in Spoken : spoken[v] \in [at : SpokenPlaces, user : Ids \cup {None}]
      /\ DOMAIN spoken = Spoken
  BY OneByOne DEF StoreInv, TypeOK, Ids
\* The others, once it is known what became of u.
<1>1. ASSUME SpokenOK(u)', UNCHANGED <<busy, typed, restarts, convs, active>>,
             \A v \in Spoken \ {u} : spoken'[v] = spoken[v],
             \A y \in (Typed \cup Spoken) \ {u}, c \in Ids : Same(y, c)
      PROVE  ExchangeInv'
  <2>1. ASSUME NEW m \in Typed PROVE TypedOK(m)'
    BY <1>0, <1>1, <2>1, TypedRests
  <2>2. ASSUME NEW v \in Spoken, v # u PROVE SpokenOK(v)'
    BY <1>0, <1>1, <2>2, SpokenRests
  <2> QED
    BY <1>1, <2>1, <2>2, OneByOne
<1>2. ASSUME NEW at \in SpokenPlaces, Reach(u, at)
      PROVE  /\ spoken'[u].at = at /\ spoken'[u].user = spoken[u].user
             /\ \A v \in Spoken \ {u} : spoken'[v] = spoken[v]
  <2> DEFINE r == [spoken[u] EXCEPT !.at = at]
  <2>1. r.at = at /\ r.user = spoken[u].user
    BY <1>0
  <2>2. spoken' = [spoken EXCEPT ![u] = r]
    BY <1>2 DEF Reach
  <2> HIDE DEF r
  <2> QED
    BY <1>0, <2>1, <2>2
\* A step that stores nothing.
<1>3. ASSUME UNCHANGED <<store, busy, typed, restarts>>,
             NEW at \in {"thinking", "replied", "shown", "done"}, Reach(u, at),
             at = "thinking" => spoken[u].at = "new"
      PROVE  ExchangeInv'
  <2>1. \A y \in Typed \cup Spoken, c \in Ids : Same(y, c)
    BY <1>3, UntouchedTurns DEF store
  <2>2. /\ spoken'[u].at = at /\ spoken'[u].user = spoken[u].user
        /\ \A v \in Spoken \ {u} : spoken'[v] = spoken[v]
    BY <1>2, <1>3 DEF SpokenPlaces
  <2>3. SpokenOK(u)'
    BY <1>0, <1>3, <2>1, <2>2 DEF SpokenOK, Same
  <2> QED
    BY <1>1, <1>3, <2>1, <2>2, <2>3 DEF store
<1>4. CASE Hear(u)
  BY <1>3, <1>4 DEF Hear
<1>5. CASE NotActedOn(u) \/ NoSpokenReply(u)
  BY <1>3, <1>5 DEF NotActedOn, NoSpokenReply
<1>6. CASE ShowUtterance(u)
  BY <1>3, <1>6 DEF ShowUtterance
<1>7. CASE EndProcessing(u)
  BY <1>3, <1>7 DEF EndProcessing
<1>8. CASE AppendSpokenUser(u)
  <2> PICK t : t = active
    OBVIOUS
  <2>1. /\ t \in Ids
        /\ UNCHANGED <<convs, active>>
        /\ Added(u, "user", t)
        /\ \A y \in Typed \cup Spoken, d \in Ids : y # u \/ d # t => Same(y, d)
    BY <1>0, <1>8, AppendedTurn DEF AppendSpokenUser, Role, Target
  <2>2. \A c \in Ids : Of(u, c) = {}
    BY <1>0, <1>8 DEF AppendSpokenUser, SpokenOK
  <2>3. PICK n \in Nat : Of(u, t)' = {n} /\ history'[t][n].role = "user"
    BY <2>1, <2>2 DEF Added
  <2>4. \A c \in Ids \ {t} : Of(u, c)' = {}
    BY <1>0, <2>1, <2>2 DEF Same
  <2>5. /\ spoken'[u].at = "kept" /\ spoken'[u].user = t
        /\ \A v \in Spoken \ {u} : spoken'[v] = spoken[v]
    BY <1>0, <1>8 DEF AppendSpokenUser
  <2>6. SpokenOK(u)'
    BY <1>0, <2>1, <2>3, <2>4, <2>5 DEF SpokenOK
  <2> QED
    BY <1>0, <1>1, <1>8, <2>1, <2>5, <2>6 DEF AppendSpokenUser
<1>9. CASE AppendSpokenReply(u)
  <2> PICK t : t = active
    OBVIOUS
  <2>1. /\ t \in Ids
        /\ UNCHANGED <<convs, active>>
        /\ Added(u, "assistant", t)
        /\ \A y \in Typed \cup Spoken, d \in Ids : y # u \/ d # t => Same(y, d)
    BY <1>0, <1>9, AppendedTurn DEF AppendSpokenReply, Role, Target
  <2>2. /\ spoken'[u].at = "replied" /\ spoken'[u].user = spoken[u].user
        /\ \A v \in Spoken \ {u} : spoken'[v] = spoken[v]
    BY <1>2, <1>9 DEF AppendSpokenReply, SpokenPlaces
  <2>3. /\ spoken[u].user # None
        /\ \A c \in Ids : \A i \in Of(u, c) : history[c][i].role = "user"
        /\ \A c, d \in Ids : \A i \in Of(u, c), j \in Of(u, d) : c = d /\ i = j
    BY <1>0, <1>9 DEF AppendSpokenReply, SpokenOK
  <2>4. PICK n \in Nat :
            /\ Of(u, t)' = Of(u, t) \cup {n} /\ history'[t][n].role = "assistant"
            /\ \A i \in Of(u, t) : i < n /\ history'[t][i].role = history[t][i].role
    BY <2>1 DEF Added
  <2>5. \A c \in Ids \ {t} : Same(u, c)
    BY <1>0, <2>1
  \* The answer is the only turn that is not the message.
  <2>6. ASSUME NEW c \in Ids, NEW i \in Of(u, c)'
        PROVE  \/ c = t /\ i = n /\ history'[c][i].role = "assistant"
               \/ /\ i \in Of(u, c) /\ history'[c][i].role = "user"
                  /\ c = t => i < n
    BY <2>3, <2>4, <2>5, <2>6 DEF Same
  <2>7. SpokenOK(u)'
    <3> SUFFICES ASSUME NEW c \in Ids, NEW d \in Ids, NEW i \in Of(u, c)', NEW j \in Of(u, d)'
                 PROVE  /\ history'[c][i].role = history'[d][j].role => c = d /\ i = j
                        /\ c = d /\ history'[c][i].role = "user" /\ history'[d][j].role = "assistant"
                              => i < j
      BY <2>2, <2>3 DEF SpokenOK
    <3> QED
      BY <2>3, <2>6
  <2> QED
    BY <1>0, <1>1, <1>9, <2>1, <2>2, <2>7 DEF AppendSpokenReply
<1> QED
  BY <1>4, <1>5, <1>6, <1>7, <1>8, <1>9 DEF Process

\* The workspace moves while no handler is in the middle of an answer, the cards
\* at any time.
LEMMA WorkspaceKeepsExchanges ==
    ASSUME StoreInv, ExchangeInv, Workspace
    PROVE  ExchangeInv'
<1>0. /\ \A m \in Typed : TypedOK(m) /\ m # None
      /\ \A u \in Spoken : SpokenOK(u)
      /\ convs \in SUBSET Ids
  BY OneByOne DEF StoreInv, TypeOK
<1>1. ASSUME UNCHANGED <<typed, spoken, restarts>>,
             \A y \in Typed \cup Spoken, c \in Ids : Same(y, c) \/ Of(y, c)' = {},
             \/ busy = None
             \/ UNCHANGED <<busy, convs, active>> /\ \A y \in Typed \cup Spoken, c \in Ids : Same(y, c)
      PROVE  ExchangeInv'
  <2>1. ASSUME NEW m \in Typed PROVE TypedOK(m)'
    <3>1. CASE busy = None
      <4>1. typed[m].at \notin {"generated", "asked"}
        BY <1>0, <3>1 DEF TypedOK
      <4> QED
        BY <1>0, <1>1, <4>1, TypedRests
    <3>2. CASE UNCHANGED <<busy, convs, active>> /\ \A y \in Typed \cup Spoken, c \in Ids : Same(y, c)
      BY <1>0, <1>1, <3>2, TypedRests
    <3> QED
      BY <1>1, <3>1, <3>2
  <2>2. ASSUME NEW u \in Spoken PROVE SpokenOK(u)'
    BY <1>0, <1>1, SpokenRests
  <2> QED
    BY <2>1, <2>2, OneByOne
<1>2. CASE Create
  <2>1. history' = history
    BY <1>2 DEF Create, new_conversation
  <2>2. \A y \in Typed \cup Spoken, c \in Ids : Same(y, c)
    BY <2>1, UntouchedTurns
  <2> QED
    BY <1>1, <1>2, <2>2 DEF Create, LoopFree
<1>3. ASSUME NEW c \in Ids, Activate(c) PROVE ExchangeInv'
  <2>1. history' = history
    BY <1>3 DEF Activate, set_active_conversation
  <2>2. \A y \in Typed \cup Spoken, d \in Ids : Same(y, d)
    BY <2>1, UntouchedTurns
  <2> QED
    BY <1>1, <1>3, <2>2 DEF Activate, LoopFree
<1>4. ASSUME NEW c \in Ids, Clear(c) \/ Delete(c) PROVE ExchangeInv'
  <2>1. history' = [history EXCEPT ![c] = <<>>]
    BY <1>4 DEF Clear, Delete, clear_conversation, delete_conversation
  <2>2. \A y \in Typed \cup Spoken, d \in Ids : Same(y, d) \/ Of(y, d)' = {}
    BY <2>1, EmptiedTurns
  <2> QED
    BY <1>1, <1>4, <2>2 DEF Clear, Delete, LoopFree
<1>5. ASSUME NEW c \in Ids, CardUpdate(c) PROVE ExchangeInv'
  <2>1. /\ UNCHANGED <<convs, active>>
        /\ \A y \in Typed \cup Spoken, d \in Ids : Same(y, d)
    BY <1>5, RewrittenTurn DEF CardUpdate
  <2> QED
    BY <1>1, <1>5, <2>1 DEF CardUpdate
<1> QED
  BY <1>2, <1>3, <1>4, <1>5 DEF Workspace

\* A message whose answer was on the way stays without it.
LEMMA RestartKeepsExchanges ==
    ASSUME StoreInv, ExchangeInv, Restart
    PROVE  ExchangeInv'
<1>0. /\ \A m \in Typed : TypedOK(m)
      /\ \A u \in Spoken : SpokenOK(u)
      /\ restarts \in Nat /\ restarts' = restarts + 1
      /\ \A m \in Typed : typed[m] \in [at : TypedPlaces, to : Ids \cup {None},
                                       tool : BOOLEAN, user : Ids \cup {None}]
      /\ \A u \in Spoken : spoken[u] \in [at : SpokenPlaces, user : Ids \cup {None}]
  BY OneByOne DEF StoreInv, TypeOK, Restart
<1>1. \A y \in Typed \cup Spoken, c \in Ids : Same(y, c)
  BY UntouchedTurns DEF Restart
<1>2. ASSUME NEW m \in Typed PROVE TypedOK(m)'
  <2>1. CASE typed[m].at \in {"generated", "speaking", "asked"}
    <3> DEFINE r == [typed[m] EXCEPT !.at = "failed"]
    <3>1. r.at = "failed" /\ r.user = typed[m].user /\ r.to = typed[m].to
      BY <1>0
    <3>2. typed'[m] = r
      BY <2>1 DEF Restart
    <3> HIDE DEF r
    <3>3. typed'[m].at = "failed" /\ typed'[m].user = typed[m].user /\ restarts' > 0
      BY <1>0, <3>1, <3>2
    <3>4. ASSUME NEW c \in Ids
          PROVE  Of(m, c)' = {} \/ (c = typed[m].user /\ Only(m, c, "user")')
      <4>1. Of(m, c) = {} \/ (c = typed[m].user /\ Only(m, c, "user"))
        BY <1>0, <2>1 DEF TypedOK
      <4>2. Of(m, c)' = Of(m, c)
        BY <1>1 DEF Same
      <4> QED
        BY <1>1, <4>1, <4>2, SameOnly
    <3> QED
      BY <3>3, <3>4 DEF TypedOK
  <2>2. CASE typed[m].at \notin {"generated", "speaking", "asked"}
    <3>1. typed'[m] = typed[m]
      BY <2>2 DEF Restart
    <3>2. ASSUME NEW c \in Ids
          PROVE  \/ Of(m, c)' = {}
                 \/ /\ typed[m].at = "answered" /\ c = typed[m].user /\ typed[m].to \in {c, None}
                    /\ Both(m, c)'
                 \/ /\ typed[m].at = "failed" /\ restarts' > 0
                    /\ c = typed[m].user
                    /\ Only(m, c, "user")'
      <4>1. Of(m, c)' = Of(m, c)
        BY <1>1 DEF Same
      <4> QED
        BY <1>0, <1>1, <2>2, <4>1, SameOnly, SameBoth DEF TypedOK
    <3> QED
      BY <1>0, <1>1, <2>2, <3>1, <3>2 DEF TypedOK, Same
  <2> QED
    BY <2>1, <2>2
<1>3. ASSUME NEW u \in Spoken PROVE SpokenOK(u)'
  <2>1. spoken'[u].user = spoken[u].user
        /\ (spoken'[u].at = "done" \/ spoken'[u] = spoken[u])
    <3> DEFINE r == [spoken[u] EXCEPT !.at = "done"]
    <3>1. r.at = "done" /\ r.user = spoken[u].user
      BY <1>0
    <3>2. spoken'[u] = spoken[u] \/ spoken'[u] = r
      BY DEF Restart
    <3> HIDE DEF r
    <3> QED
      BY <3>1, <3>2
  <2> QED
    BY <1>0, <1>1, <2>1 DEF SpokenOK, Same
<1> QED
  BY <1>2, <1>3, OneByOne

LEMMA ExchangeInit == Init => ExchangeInv
<1> SUFFICES ASSUME Init PROVE ExchangeInv
  OBVIOUS
<1>1. \A x \in Typed \cup Spoken, c \in Ids : Of(x, c) = {}
  BY DEF Init, Of
<1>2. /\ \A m \in Typed : typed[m].at = "new"
      /\ \A u \in Spoken : spoken[u].at = "new"
  BY DEF Init
<1> QED
  BY <1>1, <1>2, OneByOne DEF TypedOK, SpokenOK

LEMMA ExchangeStep == StoreInv /\ ExchangeInv /\ [Next]_vars => ExchangeInv'
<1> SUFFICES ASSUME StoreInv, ExchangeInv, [Next]_vars PROVE ExchangeInv'
  OBVIOUS
<1>1. CASE UNCHANGED vars
  <2>1. \A y \in Typed \cup Spoken, c \in Ids : Same(y, c)
    BY <1>1, UntouchedTurns DEF vars, store
  <2>2. convs \in SUBSET Ids
    BY DEF StoreInv, TypeOK
  <2> QED
    BY <1>1, <2>1, <2>2, OneByOne, TypedRests, SpokenRests DEF vars, store
<1> QED
  BY <1>1, TypedKeepsExchanges, SpokenKeepsExchanges, WorkspaceKeepsExchanges,
     RestartKeepsExchanges DEF Next

LEMMA ExchangeAlways == Spec => []ExchangeInv
BY StoreAlways, ExchangeInit, ExchangeStep, PTL DEF Spec

\* However the workspace, the listener's thread and the other messages come in
\* between, a typed exchange is stored whole in one conversation, or, but for a
\* message that a stopped host left unanswered, not at all.
THEOREM TypedExchangesStoredWhole == Spec => []TypedWhole
<1>1. ExchangeInv => TypedWhole
  BY DEF ExchangeInv
<1> QED
  BY <1>1, ExchangeAlways, PTL

\* An utterance and its answer are stored at most once, in their order.
THEOREM UtterancesStoredOnce == Spec => []SpokenOnce
<1>1. ExchangeInv => SpokenOnce
  BY DEF ExchangeInv
<1> QED
  BY <1>1, ExchangeAlways, PTL

-----------------------------------------------------------------------------
(* With clients: LiveUpdates *)

Early == {"new", "generated", "speaking"}

\* What a step may not do to a message that was posted, or that is stored: next is
\* what becomes of it.
Follows(m, next) ==
    /\ typed[m].at # "new" => next.at # "new" /\ next.to = typed[m].to
    /\ typed[m].user # None => next.user = typed[m].user
    /\ (typed[m].at \in Early => typed[m].user = None) =>
          (next.at \in Early => next.user = None)

\* A message takes its next step.
LEMMA StepFollows ==
    ASSUME TypeOK, NEW m \in Typed, NEW r, typed' = [typed EXCEPT ![m] = r], Follows(m, r)
    PROVE  \A x \in Typed : Follows(x, typed'[x])
<1>1. typed'[m] = r /\ \A x \in Typed \ {m} : typed'[x] = typed[x]
  BY DEF TypeOK
<1> QED
  BY <1>1 DEF Follows

\* The host keeps the conversation of a message, from when it is posted and from
\* when it is stored.
LEMMA TypedFollows ==
    ASSUME StoreInv, StoredLater, NEW m \in Typed,
           \/ Answer(m)
           \/ \E c \in (1 .. lastId) \cup {None}, tool \in BOOLEAN : Ask(m, c, tool)
    PROVE  \A x \in Typed : Follows(x, typed'[x])
<1>1. PICK t : t = typed[m]
  OBVIOUS
<1>2. /\ TypeOK
      /\ t \in [at : TypedPlaces, to : Ids \cup {None}, tool : BOOLEAN, user : Ids \cup {None}]
      /\ t.at \in Early => t.user = None
  BY <1>1 DEF StoreInv, TypeOK, StoredLater, Early
<1>3. ASSUME NEW at \in TypedPlaces \ {"new"}, Step(m, at), t.at # "new", at \in Early => t.at \in Early
      PROVE  \A x \in Typed : Follows(x, typed'[x])
  <2>1. PICK r : r = [t EXCEPT !.at = at]
    OBVIOUS
  <2>2. typed' = [typed EXCEPT ![m] = r]
    BY <1>1, <1>3, <2>1 DEF Step
  <2>3. r.at = at /\ r.to = t.to /\ r.user = t.user
    BY <1>2, <2>1
  <2>4. Follows(m, r)
    BY <1>1, <1>3, <2>3 DEF Follows
  <2> QED
    BY <1>2, <2>2, <2>4, StepFollows
<1>4. CASE \E c \in (1 .. lastId) \cup {None}, tool \in BOOLEAN : Ask(m, c, tool)
  <2>1. PICK c \in (1 .. lastId) \cup {None}, tool \in BOOLEAN : Ask(m, c, tool)
    BY <1>4
  <2>2. PICK r : r = [t EXCEPT !.at = "generated", !.to = c, !.tool = tool]
    OBVIOUS
  <2>3. typed' = [typed EXCEPT ![m] = r] /\ t.at = "new"
    BY <1>1, <2>1, <2>2 DEF Ask
  <2>4. r.at = "generated" /\ r.user = t.user
    BY <1>2, <2>2
  <2>5. Follows(m, r)
    BY <1>1, <1>2, <2>3, <2>4 DEF Follows, Early
  <2> QED
    BY <1>2, <2>3, <2>5, StepFollows
<1>5. CASE AppendUser(m)
  <2>1. PICK r : r = [t EXCEPT !.at = "asked", !.user = Target(t.to)]
    OBVIOUS
  <2>2. typed' = [typed EXCEPT ![m] = r] /\ t.at \in Early \ {"new"}
    BY <1>1, <1>5, <2>1 DEF AppendUser, Early
  <2>3. r.at = "asked" /\ r.to = t.to
    BY <1>2, <2>1
  <2>4. Follows(m, r)
    BY <1>1, <1>2, <2>2, <2>3 DEF Follows, Early
  <2> QED
    BY <1>2, <2>2, <2>4, StepFollows
<1>6. CASE GenerateFails(m) \/ Speak(m) \/ AppendRefused(m) \/ AppendReply(m)
  <2>1. PICK at \in {"failed", "speaking", "answered"} :
            Step(m, at) /\ t.at \in {"generated", "speaking", "asked"}
            /\ (at = "speaking" => t.at = "generated")
    BY <1>1, <1>6 DEF GenerateFails, Speak, AppendRefused, AppendReply
  <2>2. at \in TypedPlaces \ {"new"} /\ t.at # "new" /\ (at \in Early => t.at \in Early)
    BY <2>1 DEF TypedPlaces, Early
  <2> QED
    BY <1>3, <2>1, <2>2
<1> QED
  BY <1>4, <1>5, <1>6 DEF Answer

LEMMA RestartFollows ==
    ASSUME StoreInv, Restart, NEW x \in Typed
    PROVE  Follows(x, typed'[x])
<1>1. PICK t : t = typed[x]
  OBVIOUS
<1>2. t \in [at : TypedPlaces, to : Ids \cup {None}, tool : BOOLEAN, user : Ids \cup {None}]
  BY <1>1 DEF StoreInv, TypeOK
<1>3. PICK f : f = [t EXCEPT !.at = "failed"]
  OBVIOUS
<1>4. typed'[x] = IF t.at \in {"generated", "speaking", "asked"} THEN f ELSE t
  BY <1>1, <1>3 DEF Restart
<1>5. f.at = "failed" /\ f.to = t.to /\ f.user = t.user
  BY <1>2, <1>3
<1> QED
  BY <1>1, <1>4, <1>5 DEF Follows, Early

\* No step of the host lets go of what a client relies on.
LEMMA MessagesKept ==
    ASSUME StoreInv, StoredLater, [Next]_vars
    PROVE  /\ \A m \in Typed : Follows(m, typed'[m])
           /\ StoredLater'
           /\ lastId \in Nat /\ lastId' \in Nat /\ lastId <= lastId'
<1>1. \A m \in Typed : Follows(m, typed'[m])
  <2>1. CASE typed' = typed
    BY <2>1 DEF Follows
  <2>2. ASSUME NEW u \in Spoken, Hear(u) \/ Process(u) PROVE typed' = typed
    BY <2>2 DEF Hear, Process, NotActedOn, AppendSpokenUser, AppendSpokenReply, NoSpokenReply,
       ShowUtterance, EndProcessing
  <2>3. Workspace => typed' = typed
    BY DEF Workspace, Create, Activate, Clear, Delete, CardUpdate
  <2> QED
    BY <2>1, <2>2, <2>3, TypedFollows, RestartFollows DEF Next, vars
<1>2. StoredLater'
  BY <1>1 DEF StoredLater, Follows, Early
<1>3. lastId \in Nat /\ lastId' \in Nat
  <2>1. StoreInv'
    BY StoreStep
  <2> QED
    BY <2>1 DEF StoreInv, TypeOK, Ids
<1>4. lastId' = lastId \/ lastId' = lastId + 1
  BY DEF Next, Ask, Answer, GenerateFails, Speak, AppendUser, AppendReply, AppendRefused, append_turn,
     Hear, Process, NotActedOn, AppendSpokenUser, AppendSpokenReply, NoSpokenReply, ShowUtterance,
     EndProcessing, Workspace, Create, new_conversation, Activate, set_active_conversation,
     Clear, clear_conversation, Delete, delete_conversation, CardUpdate, update_latest_tool_turn,
     Restart, vars, store
<1> QED
  BY <1>1, <1>2, <1>3, <1>4

\* What is stored is stored as a client may show it.
LEMMA HistoryAsStored ==
    ASSUME NEW c \in Ids, StoreInv, ExchangeInv
    PROVE  StoredAs(history[c], c)
<1> SUFFICES ASSUME NEW i \in DOMAIN history[c], history[c][i].of \in Typed
             PROVE  /\ typed[history[c][i].of].user = c
                    /\ \A j \in DOMAIN history[c] :
                          history[c][j].of = history[c][i].of /\ history[c][j].role = history[c][i].role
                             => j = i
                    /\ history[c][i].role = "assistant" =>
                          \E j \in 1 .. i - 1 :
                              history[c][j].of = history[c][i].of /\ history[c][j].role = "user"
  BY DEF StoredAs
<1>1. PICK m \in Typed : m = history[c][i].of
  OBVIOUS
<1>2. i \in Of(m, c)
  BY <1>1 DEF Of
<1>3. typed[m].user = c /\ (Both(m, c) \/ Only(m, c, "user"))
  BY <1>2 DEF ExchangeInv, TypedWhole
<1>4. CASE Only(m, c, "user")
  BY <1>1, <1>2, <1>3, <1>4 DEF Only, Of
<1>5. CASE Both(m, c)
  <2>1. PICK x, y \in Of(m, c) :
            /\ Of(m, c) = {x, y} /\ x < y
            /\ history[c][x].role = "user" /\ history[c][y].role = "assistant"
    BY <1>5 DEF Both
  <2>2. \A j \in DOMAIN history[c] : history[c][j].of = m => j = x \/ j = y
    BY <2>1 DEF Of
  <2>3. x \in DOMAIN history[c] /\ history[c][x].of = m /\ (i = x \/ i = y)
    BY <1>2, <2>1 DEF Of
  <2>4. ASSUME history[c][i].role = "assistant"
        PROVE  i = y /\ x \in 1 .. i - 1
    <3>1. i = y
      BY <2>1, <2>3, <2>4
    <3>2. history[c] \in Seq(Turn)
      BY DEF StoreInv, TypeOK
    <3>3. x \in Nat \ {0} /\ y \in Nat
      BY <2>1, <3>2 DEF Of
    <3> QED
      BY <2>1, <3>1, <3>3
  <2> QED
    BY <1>1, <1>3, <2>1, <2>2, <2>3, <2>4
<1> QED
  BY <1>3, <1>4, <1>5

\* A copy stays what it is.
LEMMA CopyKept ==
    ASSUME NEW turns, NEW c \in Ids, StoreInv, StoredLater, [Next]_vars, StoredAs(turns, c)
    PROVE  StoredAs(turns, c)'
<1>1. \A m \in Typed : typed[m].user = c => typed'[m].user = c
  BY MessagesKept DEF Follows, Ids
<1> QED
  BY <1>1 DEF StoredAs

\* So does a request, and the client with it.
LEMMA RequestKept ==
    ASSUME NEW r \in Request, StoreInv, StoredLater, [Next]_vars, RequestSound(r)
    PROVE  RequestSound(r)'
<1>1. lastId \in Nat /\ lastId' \in Nat /\ lastId <= lastId'
  BY MessagesKept
<1>2. CASE r.at = "none"
  BY <1>2 DEF RequestSound
<1>3. CASE r.at # "none"
  <2>1. r.conv \in Ids /\ r.conv <= lastId /\ r.conv \in Nat
    BY <1>3 DEF Request, RequestSound, Ids
  <2>2. r.conv <= lastId'
    BY <1>1, <2>1
  <2>3. r.at = "answered" => StoredAs(r.turns, r.conv)'
    <3>1. PICK c \in Ids : c = r.conv
      BY <2>1
    <3>2. PICK t : t = r.turns
      OBVIOUS
    <3>3. r.at = "answered" => StoredAs(t, c)
      BY <3>1, <3>2 DEF RequestSound
    <3> QED
      BY <3>1, <3>2, <3>3, CopyKept DEF StoredAs
  <2> QED
    BY <2>2, <2>3 DEF RequestSound
<1> QED
  BY <1>2, <1>3

LEMMA SoundKept ==
    ASSUME NEW s \in ClientState, StoreInv, StoredLater, [Next]_vars, ClientSound(s)
    PROVE  ClientSound(s)'
<1>1. lastId \in Nat /\ lastId' \in Nat /\ lastId <= lastId'
  BY MessagesKept
<1>2. /\ s.shown \in Ids /\ s.refresh \in Request /\ s.own \in Request
      /\ s.sending \in Typed \cup {None}
  BY DEF ClientState
<1>3. s.shown <= lastId'
  BY <1>1, <1>2 DEF ClientSound, Ids
<1>4. StoredAs(s.copy, s.shown)'
  <2>1. PICK c \in Ids : c = s.shown
    BY <1>2
  <2>2. PICK t : t = s.copy
    OBVIOUS
  <2>3. StoredAs(t, c)
    BY <2>1, <2>2 DEF ClientSound
  <2> QED
    BY <2>1, <2>2, <2>3, CopyKept DEF StoredAs
<1>5. PICK r, o : r = s.refresh /\ o = s.own
  OBVIOUS
<1>6. RequestSound(r)' /\ RequestSound(o)'
  BY <1>2, <1>5, RequestKept DEF ClientSound
<1>7. s.sending # None => typed'[s.sending].at # "new" /\ typed'[s.sending].to \in 1 .. lastId'
  BY <1>1, <1>2, MessagesKept DEF ClientSound, Follows
<1> QED
  BY <1>3, <1>4, <1>5, <1>6, <1>7 DEF ClientSound, RequestSound

\* One client moves on; the others are where they were.
LEMMA ClientMoves ==
    ASSUME NEW k \in Clients, NEW s \in ClientState, StoreInv, ClientInv, [Next]_vars,
           ClientSound(s)', client' = [client EXCEPT ![k] = s], stream' \in [Clients -> Stream]
    PROVE  ClientInv'
<1>1. client \in [Clients -> ClientState] /\ StoredLater /\ \A x \in Clients : ClientSound(client[x])
  BY DEF ClientInv
<1>2. client' \in [Clients -> ClientState] /\ client'[k] = s
  BY <1>1
<1>3. ASSUME NEW x \in Clients PROVE ClientSound(client[x])'
  <2>1. PICK y \in ClientState : client'[x] = y /\ ((x = k /\ y = s) \/ y = client[x])
    BY <1>1, <1>2
  <2>2. ClientSound(y)'
    <3>1. CASE y = s
      BY <3>1 DEF ClientSound, RequestSound, StoredAs
    <3>2. CASE y = client[x]
      BY <1>1, <3>2, SoundKept
    <3> QED
      BY <2>1, <3>1, <3>2
  <2> QED
    BY <2>1, <2>2 DEF ClientSound, RequestSound, StoredAs
<1>4. StoredLater'
  BY <1>1, MessagesKept
<1> QED
  BY <1>2, <1>3, <1>4 DEF ClientInv

\* No client moves.
LEMMA ClientsRest ==
    ASSUME StoreInv, ClientInv, [Next]_vars, client' = client, stream' \in [Clients -> Stream]
    PROVE  ClientInv'
<1>1. client \in [Clients -> ClientState] /\ StoredLater /\ \A x \in Clients : ClientSound(client[x])
  BY DEF ClientInv
<1>2. ASSUME NEW x \in Clients PROVE ClientSound(client[x])'
  <2>1. PICK y : y = client[x]
    OBVIOUS
  <2>2. ClientSound(y)'
    BY <1>1, <2>1, SoundKept
  <2> QED
    BY <2>1, <2>2 DEF ClientSound, RequestSound, StoredAs
<1>3. StoredLater'
  BY <1>1, MessagesKept
<1> QED
  BY <1>1, <1>2, <1>3 DEF ClientInv

\* What a client does to the host, and what the host does without one, are steps
\* of Conversations or none.
LEMMA LiveStepIsStoreStep ==
    ASSUME StoreInv, ClientInv, [LiveNext]_allVars
    PROVE  [Next]_vars
<1>1. CASE UNCHANGED vars
  BY <1>1
<1>2. CASE Host
  <2>1. convs \in SUBSET Ids
    BY DEF StoreInv, TypeOK
  <2> QED
    BY <1>2, <2>1 DEF Host, Next, Workspace
<1>3. CASE HostRestart
  BY <1>3 DEF HostRestart, Next
<1>4. ASSUME NEW k \in Clients, Client(k)
      PROVE  [Next]_vars
  <2>1. CASE Connect(k) \/ Push(k) \/ Receive(k) \/ Sent(k)
             \/ (\E c \in Ids : Select(k, c)) \/ (\E which \in {"refresh", "own"} : Sync(k, which))
    BY <1>1, <2>1 DEF Connect, Push, Receive, Sent, Select, Sync
  <2>2. ASSUME NEW which \in {"refresh", "own"}, Fetch(k, which)
        PROVE  [Next]_vars
    <3>1. UNCHANGED vars \/ \E c \in convs : Activate(c)
      BY <2>2 DEF Fetch, Activate
    <3>2. convs \in SUBSET Ids
      BY DEF StoreInv, TypeOK
    <3> QED
      BY <1>1, <3>1, <3>2 DEF Next, Workspace
  <2>3. ASSUME NEW m \in Typed, Send(k, m)
        PROVE  [Next]_vars
    <3>1. PICK tool \in BOOLEAN : Ask(m, client[k].shown, tool)
      BY <2>3 DEF Send
    <3>2. client[k].shown \in 1 .. lastId
      <4>1. client[k] \in ClientState /\ ClientSound(client[k]) /\ lastId \in Ids
        BY DEF ClientInv, StoreInv, TypeOK
      <4> QED
        BY <4>1 DEF ClientState, ClientSound, Ids
    <3> QED
      BY <3>1, <3>2 DEF Next
  <2> QED
    BY <1>4, <2>1, <2>2, <2>3 DEF Client
<1> QED
  BY <1>1, <1>2, <1>3, <1>4 DEF LiveNext, allVars

-----------------------------------------------------------------------------
(* Each step of a client *)

\* An event of the stream.
LEMMA EventTypes ==
    ASSUME TypeOK
    PROVE  live \in Event /\ NoEvent \in Event
<1>1. live \in Event
  BY DEF TypeOK, Event
<1>2. Fresh \in [rev : Nat, seq : Nat, kind : Kinds, conv : Ids \cup {None}]
  BY DEF Fresh, Kinds
<1> QED
  BY <1>1, <1>2 DEF NoEvent, Event

\* The stream is connected, or takes up a change.
LEMMA StreamKeeps ==
    ASSUME NEW k \in Clients, StoreInv, ClientInv, Connect(k) \/ Push(k)
    PROVE  ClientInv'
<1>1. TypeOK /\ stream \in [Clients -> Stream] /\ live \in Event /\ live.rev \in Nat
  BY EventTypes DEF StoreInv, ClientInv, Event
<1>2. PICK s : s = stream[k]
  OBVIOUS
<1>3. s \in Stream
  BY <1>1, <1>2
<1>4. \E r \in Stream : stream' = [stream EXCEPT ![k] = r]
  <2>1. [up |-> TRUE, last |-> live.rev, sent |-> live] \in Stream
    BY <1>1 DEF Stream
  <2>2. [s EXCEPT !.last = live.rev, !.sent = live] \in Stream
    BY <1>1, <1>3 DEF Stream
  <2>3. CASE Connect(k)
    BY <2>1, <2>3 DEF Connect
  <2>4. CASE Push(k)
    BY <1>2, <2>2, <2>4 DEF Push
  <2> QED
    BY <2>3, <2>4
<1>5. stream' \in [Clients -> Stream]
  BY <1>1, <1>4
<1>6. [Next]_vars /\ client' = client
  BY DEF Connect, Push
<1> QED
  BY <1>5, <1>6, ClientsRest

\* An event arrives.
LEMMA ReceiveKeeps ==
    ASSUME NEW k \in Clients, StoreInv, ClientInv, Receive(k)
    PROVE  ClientInv'
<1>1. /\ TypeOK /\ stream \in [Clients -> Stream] /\ NoEvent \in Event
      /\ client \in [Clients -> ClientState] /\ \A x \in Clients : ClientSound(client[x])
  BY EventTypes DEF StoreInv, ClientInv
<1>2. PICK st \in Stream, s \in ClientState : st = stream[k] /\ s = client[k]
  BY <1>1
<1>3. PICK event \in Event : event = st.sent
  BY <1>2 DEF Stream
<1>4. stream' \in [Clients -> Stream]
  <2>1. [st EXCEPT !.sent = NoEvent] \in Stream
    BY <1>1, <1>2 DEF Stream
  <2>2. stream' = [stream EXCEPT ![k] = [st EXCEPT !.sent = NoEvent]]
    BY <1>2 DEF Receive
  <2> QED
    BY <1>1, <2>1, <2>2
<1>5. PICK heard : heard = [s EXCEPT !.rev = event.rev, !.seq = event.seq]
  OBVIOUS
<1>6. /\ heard \in ClientState /\ heard.shown = s.shown /\ heard.copy = s.copy
      /\ heard.refresh = s.refresh /\ heard.own = s.own /\ heard.sending = s.sending
  BY <1>2, <1>3, <1>5 DEF ClientState, Event
<1>7. PICK asking : asking = [heard EXCEPT !.refresh = Asked(s.shown)]
  OBVIOUS
<1>8. /\ asking \in ClientState /\ asking.shown = s.shown /\ asking.copy = s.copy
      /\ asking.refresh = Asked(s.shown) /\ asking.own = s.own /\ asking.sending = s.sending
  <2>1. Asked(s.shown) \in Request
    BY DEF Asked, Request, ClientState
  <2> QED
    BY <1>6, <1>7, <2>1 DEF ClientState
<1>9. \E r \in {s, heard, asking} : client' = [client EXCEPT ![k] = r]
  BY <1>2, <1>3, <1>5, <1>7 DEF Receive
<1>10. PICK r \in {s, heard, asking} : client' = [client EXCEPT ![k] = r]
  BY <1>9
<1>11. ClientSound(s)
  BY <1>1, <1>2
<1>12. RequestSound(Asked(s.shown))
  BY <1>11 DEF RequestSound, Asked, ClientSound
<1>13. r \in ClientState /\ ClientSound(r)
  BY <1>2, <1>6, <1>8, <1>10, <1>11, <1>12 DEF ClientSound
<1>14. UNCHANGED vars /\ [Next]_vars
  BY DEF Receive
<1>15. ClientSound(r)'
  BY <1>13, <1>14, SoundKept DEF ClientInv
<1> QED
  BY <1>4, <1>10, <1>13, <1>14, <1>15, ClientMoves

\* The user picks a conversation, or a message that was sent is answered.
LEMMA AskingKeeps ==
    ASSUME NEW k \in Clients, StoreInv, ClientInv, Sent(k) \/ \E c \in Ids : Select(k, c)
    PROVE  ClientInv'
<1>1. /\ client \in [Clients -> ClientState] /\ stream \in [Clients -> Stream] /\ StoredLater
      /\ lastId \in Ids /\ convs \in SUBSET Ids /\ \A c \in convs : c <= lastId
  BY DEF StoreInv, ClientInv, TypeOK, IdsGivenOut
<1>2. PICK s \in ClientState : s = client[k]
  BY <1>1
<1>3. ClientSound(s)
  BY <1>2 DEF ClientInv
<1>4. UNCHANGED <<vars, stream>> /\ [Next]_vars
  BY DEF Sent, Select
<1>5. ASSUME NEW r \in ClientState, ClientSound(r), client' = [client EXCEPT ![k] = r]
      PROVE  ClientInv'
  BY <1>1, <1>4, <1>5, SoundKept, ClientMoves
<1>6. ASSUME NEW c \in Ids, Select(k, c)
      PROVE  ClientInv'
  <2>0. PICK n \in Nat : n = s.selects + 1
    BY DEF ClientState
  <2>1. PICK r : r = [s EXCEPT !.own = Asked(c), !.selects = n]
    OBVIOUS
  <2>2. c <= lastId
    BY <1>1, <1>6 DEF Select
  <2>3. RequestSound(Asked(c)) /\ Asked(c) \in Request
    BY <2>2 DEF RequestSound, Asked, Request
  <2>4. /\ r \in ClientState /\ r.shown = s.shown /\ r.copy = s.copy
        /\ r.refresh = s.refresh /\ r.own = Asked(c) /\ r.sending = s.sending
    BY <2>1, <2>3 DEF ClientState
  <2>5. ClientSound(r)
    BY <1>3, <2>3, <2>4 DEF ClientSound
  <2>6. client' = [client EXCEPT ![k] = r]
    BY <1>2, <1>6, <2>0, <2>1 DEF Select
  <2> QED
    BY <1>5, <2>4, <2>5, <2>6
<1>7. CASE Sent(k)
  <2>1. PICK m \in Typed : m = s.sending
    BY <1>2, <1>7 DEF Sent, ClientState
  <2>2. PICK c : c = typed[m].to
    OBVIOUS
  <2>3. c \in Ids /\ c <= lastId
    BY <1>1, <1>3, <2>1, <2>2 DEF ClientSound, Ids
  <2>4. RequestSound(Asked(c)) /\ Asked(c) \in Request
    BY <2>3 DEF RequestSound, Asked, Request
  <2>5. CASE client' = [client EXCEPT ![k] = [s EXCEPT !.own = Asked(c)]]
    <3>1. PICK r : r = [s EXCEPT !.own = Asked(c)]
      OBVIOUS
    <3>2. /\ r \in ClientState /\ r.shown = s.shown /\ r.copy = s.copy
          /\ r.refresh = s.refresh /\ r.own = Asked(c) /\ r.sending = s.sending
      BY <2>4, <3>1 DEF ClientState
    <3>3. ClientSound(r)
      BY <1>3, <2>4, <3>2 DEF ClientSound
    <3> QED
      BY <1>5, <2>5, <3>1, <3>2, <3>3
  <2>6. CASE client' = [client EXCEPT ![k] = [s EXCEPT !.sending = None]]
    <3>1. PICK r : r = [s EXCEPT !.sending = None]
      OBVIOUS
    <3>2. /\ r \in ClientState /\ r.shown = s.shown /\ r.copy = s.copy
          /\ r.refresh = s.refresh /\ r.own = s.own /\ r.sending = None
      BY <3>1 DEF ClientState
    <3>3. ClientSound(r)
      BY <1>3, <3>2 DEF ClientSound
    <3> QED
      BY <1>5, <2>6, <3>1, <3>2, <3>3
  <2> QED
    BY <1>2, <1>7, <2>1, <2>2, <2>5, <2>6 DEF Sent
<1> QED
  BY <1>6, <1>7

\* An answer is shown.
LEMMA SyncKeeps ==
    ASSUME NEW k \in Clients, NEW which \in {"refresh", "own"}, StoreInv, ClientInv, Sync(k, which)
    PROVE  ClientInv'
<1>1. /\ client \in [Clients -> ClientState] /\ stream \in [Clients -> Stream] /\ StoredLater
  BY DEF ClientInv
<1>2. PICK s \in ClientState : s = client[k]
  BY <1>1
<1>3. ClientSound(s) /\ s.refresh \in Request /\ s.own \in Request
  BY <1>2 DEF ClientInv, ClientState
<1>4. UNCHANGED <<vars, stream>> /\ [Next]_vars
  BY DEF Sync
<1>5. PICK a : a = s[which]
  OBVIOUS
<1>6. a \in Request /\ a.at = "answered" /\ RequestSound(a)
  <2>1. a.at = "answered"
    BY <1>2, <1>5 DEF Sync
  <2>2. CASE which = "refresh"
    BY <1>3, <1>5, <2>1, <2>2 DEF ClientSound
  <2>3. CASE which = "own"
    BY <1>3, <1>5, <2>1, <2>3 DEF ClientSound
  <2> QED
    BY <2>2, <2>3
<1>7. a.conv \in Ids /\ a.turns \in Seq(Turn) /\ a.conv <= lastId /\ StoredAs(a.turns, a.conv)
  BY <1>6 DEF Request, RequestSound
<1>8. \E r \in ClientState :
          /\ client' = [client EXCEPT ![k] = r]
          /\ r.shown = a.conv /\ r.copy = a.turns
          /\ r.refresh \in {s.refresh, NoRequest} /\ r.own \in {s.own, NoRequest}
          /\ r.sending \in {s.sending, None}
  <2>1. NoRequest \in Request
    BY DEF NoRequest, Request
  <2>2. CASE which = "refresh"
    <3>1. PICK r : r = [s EXCEPT !.shown = a.conv, !.copy = a.turns, !.refresh = NoRequest]
      OBVIOUS
    <3>2. client' = [client EXCEPT ![k] = r]
      <4>1. client' = [client EXCEPT ![k] = [s EXCEPT !.shown = a.conv, !.copy = a.turns,
                          !.refresh = NoRequest, !.sending = s.sending]]
        BY <1>2, <1>5, <2>2 DEF Sync
      <4>2. [s EXCEPT !.shown = a.conv, !.copy = a.turns, !.refresh = NoRequest,
                      !.sending = s.sending] = r
        BY <3>1 DEF ClientState
      <4> QED
        BY <4>1, <4>2
    <3>3. /\ r \in ClientState /\ r.shown = a.conv /\ r.copy = a.turns
          /\ r.refresh = NoRequest /\ r.own = s.own /\ r.sending = s.sending
      BY <1>7, <2>1, <3>1 DEF ClientState
    <3> QED
      BY <3>2, <3>3
  <2>3. CASE which = "own"
    <3>1. PICK r : r = [s EXCEPT !.shown = a.conv, !.copy = a.turns, !.own = NoRequest,
                        !.sending = None]
      OBVIOUS
    <3>2. client' = [client EXCEPT ![k] = r]
      BY <1>2, <1>5, <2>3, <3>1 DEF Sync
    <3>3. /\ r \in ClientState /\ r.shown = a.conv /\ r.copy = a.turns
          /\ r.refresh = s.refresh /\ r.own = NoRequest /\ r.sending = None
      BY <1>7, <2>1, <3>1 DEF ClientState
    <3> QED
      BY <3>2, <3>3
  <2> QED
    BY <2>2, <2>3
<1>9. PICK r \in ClientState :
          /\ client' = [client EXCEPT ![k] = r]
          /\ r.shown = a.conv /\ r.copy = a.turns
          /\ r.refresh \in {s.refresh, NoRequest} /\ r.own \in {s.own, NoRequest}
          /\ r.sending \in {s.sending, None}
  BY <1>8
<1>10. RequestSound(NoRequest)
  BY DEF RequestSound, NoRequest
<1>11. ClientSound(r)
  <2>1. RequestSound(r.refresh) /\ RequestSound(r.own)
    BY <1>3, <1>9, <1>10 DEF ClientSound
  <2>2. r.shown <= lastId /\ StoredAs(r.copy, r.shown)
    BY <1>7, <1>9
  <2>3. r.sending # None => typed[r.sending].at # "new" /\ typed[r.sending].to \in 1 .. lastId
    BY <1>3, <1>9 DEF ClientSound
  <2> QED
    BY <2>1, <2>2, <2>3 DEF ClientSound
<1> QED
  BY <1>1, <1>4, <1>9, <1>11, SoundKept, ClientMoves

\* A refresh or a request of the user is answered: its conversation becomes the
\* active one, and its turns are on their way; or it is gone.
LEMMA FetchKeeps ==
    ASSUME NEW k \in Clients, NEW which \in {"refresh", "own"},
           StoreInv, ExchangeInv, ClientInv, Fetch(k, which)
    PROVE  ClientInv'
<1>1. /\ client \in [Clients -> ClientState] /\ stream \in [Clients -> Stream] /\ StoredLater
      /\ lastId \in Ids /\ convs \in SUBSET Ids /\ history \in [Ids -> Seq(Turn)]
      /\ \A c \in convs : c <= lastId
  BY DEF StoreInv, ClientInv, TypeOK, IdsGivenOut
<1>2. PICK s \in ClientState : s = client[k]
  BY <1>1
<1>3. ClientSound(s) /\ s.refresh \in Request /\ s.own \in Request
  BY <1>2 DEF ClientInv, ClientState
<1>4. [Next]_vars /\ stream' = stream
  BY <1>1 DEF Fetch, Activate, Next, Workspace
<1>5. ASSUME NEW r \in ClientState, ClientSound(r), client' = [client EXCEPT ![k] = r]
      PROVE  ClientInv'
  BY <1>1, <1>4, <1>5, SoundKept, ClientMoves
<1>6. PICK c : c = s[which].conv
  OBVIOUS
<1>7. CASE c \in convs /\ client' = [client EXCEPT ![k][which] = Answered(c, history[c])]
  <2>1. PICK a : a = Answered(c, history[c])
    OBVIOUS
  <2>2. c \in Ids /\ c <= lastId /\ StoredAs(history[c], c)
    BY <1>1, <1>7, HistoryAsStored
  <2>3. a \in Request /\ RequestSound(a)
    BY <1>1, <2>1, <2>2 DEF Answered, Request, RequestSound
  <2>4. CASE which = "refresh"
    <3>1. PICK r : r = [s EXCEPT !.refresh = a]
      OBVIOUS
    <3>2. client' = [client EXCEPT ![k] = r]
      BY <1>2, <1>7, <2>1, <2>4, <3>1
    <3>3. /\ r \in ClientState /\ r.shown = s.shown /\ r.copy = s.copy
          /\ r.refresh = a /\ r.own = s.own /\ r.sending = s.sending
      BY <2>3, <3>1 DEF ClientState
    <3>4. ClientSound(r)
      BY <1>3, <2>3, <3>3 DEF ClientSound
    <3> QED
      BY <1>5, <3>2, <3>3, <3>4
  <2>5. CASE which = "own"
    <3>1. PICK r : r = [s EXCEPT !.own = a]
      OBVIOUS
    <3>2. client' = [client EXCEPT ![k] = r]
      BY <1>2, <1>7, <2>1, <2>5, <3>1
    <3>3. /\ r \in ClientState /\ r.shown = s.shown /\ r.copy = s.copy
          /\ r.refresh = s.refresh /\ r.own = a /\ r.sending = s.sending
      BY <2>3, <3>1 DEF ClientState
    <3>4. ClientSound(r)
      BY <1>3, <2>3, <3>3 DEF ClientSound
    <3> QED
      BY <1>5, <3>2, <3>3, <3>4
  <2> QED
    BY <2>4, <2>5
<1>8. CASE client' = [client EXCEPT ![k] = [s EXCEPT ![which] = NoRequest,
                        !.sending = IF which = "own" THEN None ELSE s.sending]]
  <2>1. NoRequest \in Request /\ RequestSound(NoRequest)
    BY DEF NoRequest, Request, RequestSound
  <2>2. CASE which = "refresh"
    <3>1. PICK r : r = [s EXCEPT !.refresh = NoRequest]
      OBVIOUS
    <3>2. client' = [client EXCEPT ![k] = r]
      <4>1. client' = [client EXCEPT ![k] = [s EXCEPT !.refresh = NoRequest, !.sending = s.sending]]
        BY <1>8, <2>2
      <4>2. [s EXCEPT !.refresh = NoRequest, !.sending = s.sending] = r
        BY <3>1 DEF ClientState
      <4> QED
        BY <4>1, <4>2
    <3>3. /\ r \in ClientState /\ r.shown = s.shown /\ r.copy = s.copy
          /\ r.refresh = NoRequest /\ r.own = s.own /\ r.sending = s.sending
      BY <2>1, <3>1 DEF ClientState
    <3>4. ClientSound(r)
      BY <1>3, <2>1, <3>3 DEF ClientSound
    <3> QED
      BY <1>5, <3>2, <3>3, <3>4
  <2>3. CASE which = "own"
    <3>1. PICK r : r = [s EXCEPT !.own = NoRequest, !.sending = None]
      OBVIOUS
    <3>2. client' = [client EXCEPT ![k] = r]
      BY <1>8, <2>3, <3>1
    <3>3. /\ r \in ClientState /\ r.shown = s.shown /\ r.copy = s.copy
          /\ r.refresh = s.refresh /\ r.own = NoRequest /\ r.sending = None
      BY <2>1, <3>1 DEF ClientState
    <3>4. ClientSound(r)
      BY <1>3, <2>1, <3>3 DEF ClientSound
    <3> QED
      BY <1>5, <3>2, <3>3, <3>4
  <2> QED
    BY <2>2, <2>3
<1> QED
  BY <1>2, <1>6, <1>7, <1>8 DEF Fetch, Activate

\* A message is posted to the conversation the client shows.
LEMMA SendKeeps ==
    ASSUME NEW k \in Clients, NEW m \in Typed, StoreInv, ClientInv, Send(k, m)
    PROVE  ClientInv'
<1>1. /\ client \in [Clients -> ClientState] /\ stream \in [Clients -> Stream] /\ StoredLater
      /\ lastId \in Ids
      /\ typed \in [Typed -> [at : TypedPlaces, to : Ids \cup {None}, tool : BOOLEAN,
                              user : Ids \cup {None}]]
  BY DEF StoreInv, ClientInv, TypeOK
<1>2. PICK s \in ClientState : s = client[k]
  BY <1>1
<1>3. ClientSound(s) /\ s.shown \in 1 .. lastId
  <2>1. ClientSound(s)
    BY <1>2 DEF ClientInv
  <2>2. s.shown \in Ids
    BY DEF ClientState
  <2> QED
    BY <1>1, <2>1, <2>2 DEF ClientSound, Ids
<1>4. PICK tool \in BOOLEAN : Ask(m, s.shown, tool)
  BY <1>2 DEF Send
<1>5. [Next]_vars /\ stream' = stream /\ lastId' = lastId
  BY <1>3, <1>4 DEF Next, Send, Ask, store
<1>6. typed'[m].at # "new" /\ typed'[m].to = s.shown
  <2>1. typed[m] \in [at : TypedPlaces, to : Ids \cup {None}, tool : BOOLEAN, user : Ids \cup {None}]
    BY <1>1
  <2>2. PICK t : t = [typed[m] EXCEPT !.at = "generated", !.to = s.shown, !.tool = tool]
    OBVIOUS
  <2>3. t.at = "generated" /\ t.to = s.shown
    BY <2>1, <2>2
  <2>4. typed' = [typed EXCEPT ![m] = t]
    BY <1>4, <2>2 DEF Ask
  <2> QED
    BY <1>1, <2>3, <2>4
<1>7. PICK r : r = [s EXCEPT !.sending = m]
  OBVIOUS
<1>8. /\ r \in ClientState /\ r.shown = s.shown /\ r.copy = s.copy
      /\ r.refresh = s.refresh /\ r.own = s.own /\ r.sending = m
  BY <1>7 DEF ClientState
<1>9. client' = [client EXCEPT ![k] = r]
  BY <1>2, <1>7 DEF Send
<1>10. ClientSound(s)'
  BY <1>1, <1>3, <1>5, SoundKept
<1>11. ClientSound(r)'
  BY <1>3, <1>5, <1>6, <1>8, <1>10 DEF ClientSound, RequestSound, StoredAs
<1> QED
  BY <1>1, <1>5, <1>8, <1>9, <1>11, ClientMoves

-----------------------------------------------------------------------------
(* Every behaviour of a host with clients *)

LEMMA LiveStart == LiveInit => StoreInv /\ ExchangeInv /\ ClientInv
<1> SUFFICES ASSUME LiveInit PROVE StoreInv /\ ExchangeInv /\ ClientInv
  OBVIOUS
<1>1. Init
  BY DEF LiveInit
<1>2. StoreInv /\ ExchangeInv
  BY <1>1, StoreInit, ExchangeInit
<1>3. NoEvent \in Event /\ lastId = 1 /\ 1 \in Ids
  BY <1>1, <1>2, EventTypes DEF StoreInv, Init, Ids
<1>4. stream \in [Clients -> Stream]
  BY <1>3 DEF LiveInit, Stream
<1>5. PICK s : s = [shown |-> 1, copy |-> <<>>, rev |-> 0, seq |-> 0,
                    sending |-> None, refresh |-> NoRequest, own |-> NoRequest, selects |-> 0]
  OBVIOUS
<1>6. s \in ClientState
  <2>1. <<>> \in Seq(Turn) /\ NoRequest \in Request
    BY DEF NoRequest, Request
  <2> QED
    BY <1>3, <1>5, <2>1 DEF ClientState
<1>7. ClientSound(s)
  BY <1>3, <1>5 DEF ClientSound, RequestSound, NoRequest, StoredAs
<1>8. client = [k \in Clients |-> s]
  BY <1>5 DEF LiveInit
<1>9. StoredLater
  BY <1>1 DEF Init, StoredLater
<1> QED
  BY <1>2, <1>4, <1>6, <1>7, <1>8, <1>9 DEF ClientInv

LEMMA LiveStep ==
    StoreInv /\ ExchangeInv /\ ClientInv /\ [LiveNext]_allVars
        => StoreInv' /\ ExchangeInv' /\ ClientInv'
<1> SUFFICES ASSUME StoreInv, ExchangeInv, ClientInv, [LiveNext]_allVars
             PROVE  StoreInv' /\ ExchangeInv' /\ ClientInv'
  OBVIOUS
<1>1. [Next]_vars
  BY LiveStepIsStoreStep
<1>2. stream \in [Clients -> Stream]
  BY DEF ClientInv
<1>3. CASE Host \/ UNCHANGED allVars
  <2>1. client' = client /\ stream' = stream
    BY <1>3 DEF Host, allVars, clientVars
  <2> QED
    BY <1>1, <1>2, <2>1, ClientsRest, StoreStep, ExchangeStep
<1>4. CASE HostRestart
  <2>1. NoEvent \in Event
    BY EventTypes DEF StoreInv
  <2>2. stream' \in [Clients -> Stream] /\ client' = client
    BY <1>4, <2>1 DEF HostRestart, Stream
  <2> QED
    BY <1>1, <2>2, ClientsRest, StoreStep, ExchangeStep
<1>5. ASSUME NEW k \in Clients, Client(k) PROVE ClientInv'
  BY <1>5, StreamKeeps, ReceiveKeeps, AskingKeeps, SyncKeeps, FetchKeeps, SendKeeps DEF Client
<1> QED
  BY <1>1, <1>3, <1>4, <1>5, StoreStep, ExchangeStep DEF LiveNext

LEMMA LiveAlways == LiveSpec => [](StoreInv /\ ExchangeInv /\ ClientInv)
BY LiveStart, LiveStep, PTL DEF LiveSpec

\* Whatever its clients ask of it and in whatever order, a host with clients is a
\* host as Conversations describes it: what is proved of the one holds of the other.
THEOREM ClientsUseTheStore == LiveSpec => Spec
<1>1. LiveInit => Init
  BY DEF LiveInit
<1>2. StoreInv /\ ClientInv /\ [LiveNext]_allVars => [Next]_vars
  BY LiveStepIsStoreStep
<1> QED
  BY <1>1, <1>2, LiveAlways, PTL DEF LiveSpec, Spec

\* A client shows of typed exchanges only what was stored in the conversation it
\* shows, none twice and no reply without its message, in whatever order refreshes,
\* selections and replies come back to it.
THEOREM ClientsShowWhatIsStored == LiveSpec => []ShownAsStored
<1>1. ClientInv => ShownAsStored
  BY DEF ClientInv, ClientSound, ShownAsStored
<1> QED
  BY <1>1, LiveAlways, PTL
=============================================================================
