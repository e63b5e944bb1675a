---------------------------- MODULE Conversations ----------------------------
(***************************************************************************)
(* The conversation store and the two ways an exchange gets into it: a     *)
(* typed message, answered by /chat on the event loop and stored there in  *)
(* two calls, and an utterance, answered in the listener's worker thread   *)
(* and stored from that thread in two calls; meanwhile the workspace       *)
(* routes create, activate, clear and delete conversations.  Every call of *)
(* the store is one transaction under one lock and most of them leave a    *)
(* new revision of the live state behind.                                  *)
(*                                                                         *)
(* A step is one call of the store, or what the event loop does between    *)
(* two awaits.  busy is the typed message whose handler the event loop is  *)
(* in the middle of: only threads move meanwhile.                          *)
(***************************************************************************)
EXTENDS Naturals, Sequences, FiniteSets

CONSTANTS Typed,        \* messages posted to /chat
          Spoken,       \* utterances
          MaxId,        \* bound on the ids of conversations
          MaxRestarts,  \* bound on the restarts of the host
          None          \* no conversation named, no handler running

ASSUME IdsAssumption == MaxId \in Nat \ {0}
ASSUME RestartsAssumption == MaxRestarts \in Nat
ASSUME NamesAssumption == None \notin Typed /\ None \notin Nat /\ Typed \cap Spoken = {}

VARIABLES convs,    \* ids in the table conversations
          lastId,   \* its AUTOINCREMENT counter
          active,   \* app_state's active_conversation_id
          history,  \* rows of conversation_history, by conversation
          stuck,    \* a thread waits for _lock that it holds itself
          busy,     \* the /chat handler on the event loop, or None
          typed,    \* what became of each typed message
          spoken,   \* what became of each utterance
          live,     \* the live state's revision and last event
          restarts

store == <<convs, lastId, active, history, stuck>>
vars == <<store, busy, typed, spoken, live, restarts>>

Ids == 1 .. MaxId
Role == {"user", "assistant"}

\* card: whether the turn shows a tool's card, and whether its state is final
Turn == [of : Typed \cup Spoken, role : Role, card : {"no", "open", "final"}]

\* to: payload.conversation_id; tool: a tool answered it; user, reply: the
\* conversations its turns went to
TypedPlaces == {"new", "generated", "speaking", "asked", "answered", "failed"}
SpokenPlaces == {"new", "thinking", "kept", "replied", "shown", "done"}

Kinds == {"none", "conversation", "agent_action", "status", "snapshot"}
Fresh == [rev |-> 0, seq |-> 0, kind |-> "none", conv |-> None]

TypeOK ==
    /\ convs \in SUBSET Ids /\ lastId \in Ids /\ active \in Ids
    /\ history \in [Ids -> Seq(Turn)]
    /\ stuck \in BOOLEAN
    /\ busy \in Typed \cup {None}
    /\ typed \in [Typed -> [at : TypedPlaces, to : Ids \cup {None}, tool : BOOLEAN,
                            user : Ids \cup {None}]]
    /\ spoken \in [Spoken -> [at : SpokenPlaces, user : Ids \cup {None}]]
    /\ live \in [rev : Nat, seq : Nat, kind : Kinds, conv : Ids \cup {None}]
    /\ restarts \in Nat

\* _migrate has made the first conversation and the active one.
Init ==
    /\ convs = {1} /\ lastId = 1 /\ active = 1
    /\ history = [c \in Ids |-> <<>>]
    /\ stuck = FALSE
    /\ busy = None
    /\ typed = [m \in Typed |-> [at |-> "new", to |-> None, tool |-> FALSE, user |-> None]]
    /\ spoken = [u \in Spoken |-> [at |-> "new", user |-> None]]
    /\ live = Fresh
    /\ restarts = 0

LoopFree == busy = None /\ ~stuck

-----------------------------------------------------------------------------
(* The live state *)

Bump(kind, c) == [rev |-> live.rev + 1, seq |-> live.seq, kind |-> kind, conv |-> c]

set_snapshot == live' = [Bump("snapshot", None) EXCEPT !.seq = @ + 1]

set_status == live' = Bump("status", None)

-----------------------------------------------------------------------------
(* The store *)

Target(c) == IF c = None THEN active ELSE c

\* Mutation: the pragma failed, which _connect shrugs off.
AppendWithoutForeignKey(x, role, card, c) ==
    /\ ~stuck
    /\ history' = [history EXCEPT
          ![Target(c)] = Append(@, [of |-> x, role |-> role, card |-> card])]
    /\ live' = Bump("conversation", Target(c))
    /\ UNCHANGED <<convs, lastId, active, stuck>>

\* The foreign key refuses a turn of a conversation that is gone.
append_turn(x, role, card, c) ==
    /\ ~stuck /\ Target(c) \in convs
    /\ history' = [history EXCEPT
          ![Target(c)] = Append(@, [of |-> x, role |-> role, card |-> card])]
    /\ live' = Bump("conversation", Target(c))
    /\ UNCHANGED <<convs, lastId, active, stuck>>

Finished(turn) == [turn EXCEPT !.card = "final"]

\* A finished task rewrites the newest card of a conversation.
update_latest_tool_turn(c) ==
    /\ ~stuck
    /\ \E i \in DOMAIN history[c] :
          /\ history[c][i].card = "open"
          /\ \A j \in DOMAIN history[c] : history[c][j].card # "no" => j <= i
          /\ history' = [history EXCEPT ![c] = [@ EXCEPT ![i] = Finished(history[c][i])]]
    /\ live' = Bump("conversation", c)
    /\ UNCHANGED <<convs, lastId, active, stuck>>

\* Mutation: ids without AUTOINCREMENT.
ReuseId ==
    LET id == CHOOSE i \in 1 .. (MaxId + 1) : i - 1 \in convs /\ \A c \in convs : c < i
    IN /\ id <= MaxId
       /\ lastId' = id
       /\ convs' = convs \cup {id}
       /\ active' = id
       /\ UNCHANGED <<history, stuck>>

new_conversation ==
    /\ lastId < MaxId
    /\ lastId' = lastId + 1
    /\ convs' = convs \cup {lastId'}
    /\ active' = lastId'
    /\ UNCHANGED <<history, stuck>>

set_active_conversation(c) ==
    /\ c \in convs
    /\ active' = c
    /\ UNCHANGED <<convs, lastId, history, stuck>>

clear_conversation(c) ==
    /\ history' = [history EXCEPT ![c] = <<>>]
    /\ UNCHANGED <<convs, lastId, active, stuck>>

\* Mutation: whatever conversation is next in number.
DeleteActivatesPrevious(c) ==
    /\ history' = [history EXCEPT ![c] = <<>>]
    /\ convs' = convs \ {c}
    /\ active' = IF active = c THEN c - 1 ELSE active
    /\ UNCHANGED <<lastId, stuck>>

\* Its turns go with a conversation.  Without another one to activate it would
\* call new_conversation, which takes the lock that is held already.
delete_conversation(c) ==
    LET rest == convs \ {c}
    IN /\ history' = [history EXCEPT ![c] = <<>>]
       /\ convs' = rest
       /\ stuck' = (active = c /\ rest = {})
       /\ active' \in IF active = c /\ rest # {} THEN {d \in rest : \A e \in rest : e <= d}
                                                 ELSE {active}
       /\ UNCHANGED lastId

-----------------------------------------------------------------------------
(* The workspace routes; those that meet a missing conversation answer 404 *)

Create ==
    /\ LoopFree
    /\ new_conversation
    /\ UNCHANGED <<busy, typed, spoken, live, restarts>>

Activate(c) ==
    /\ LoopFree /\ c \in convs
    /\ set_active_conversation(c)
    /\ UNCHANGED <<busy, typed, spoken, live, restarts>>

Clear(c) ==
    /\ LoopFree /\ c \in convs
    /\ clear_conversation(c)
    /\ UNCHANGED <<busy, typed, spoken, live, restarts>>

\* Mutation: without a look at how many there are.
DeleteLast(c) ==
    /\ LoopFree /\ c \in convs
    /\ delete_conversation(c)
    /\ UNCHANGED <<busy, typed, spoken, live, restarts>>

Delete(c) ==
    /\ LoopFree /\ c \in convs
    /\ Cardinality(convs) > 1
    /\ delete_conversation(c)
    /\ UNCHANGED <<busy, typed, spoken, live, restarts>>

-----------------------------------------------------------------------------
(* /chat: the tool router or the model answers while the event loop waits, *)
(* speech is awaited, the turns are stored afterwards                      *)

Step(m, at) == typed' = [typed EXCEPT ![m].at = at]

Ask(m, c, tool) ==
    /\ LoopFree /\ typed[m].at = "new"
    /\ typed' = [typed EXCEPT ![m] = [@ EXCEPT !.at = "generated", !.to = c, !.tool = tool]]
    /\ busy' = m
    /\ live' \in {live} \cup IF tool THEN {Bump("agent_action", c)} ELSE {}
    /\ UNCHANGED <<store, spoken, restarts>>

\* The router or the model raises: an error is all that is sent.
GenerateFails(m) ==
    /\ typed[m].at = "generated"
    /\ Step(m, "failed") /\ busy' = None
    /\ UNCHANGED <<store, spoken, live, restarts>>

Speak(m) ==
    /\ typed[m].at = "generated"
    /\ Step(m, "speaking") /\ busy' = None
    /\ UNCHANGED <<store, spoken, live, restarts>>

AppendUser(m) ==
    /\ \/ typed[m].at = "generated"
       \/ typed[m].at = "speaking" /\ LoopFree
    /\ append_turn(m, "user", "no", typed[m].to)
    /\ typed' = [typed EXCEPT ![m] = [@ EXCEPT !.at = "asked", !.user = Target(typed[m].to)]]
    /\ busy' = m
    /\ UNCHANGED <<spoken, restarts>>

\* Mutation: the reply is stored without the request's conversation.
ReplyToActive(m) ==
    /\ typed[m].at = "asked"
    /\ append_turn(m, "assistant", "no", None)
    /\ Step(m, "answered") /\ busy' = None
    /\ UNCHANGED <<spoken, restarts>>

AppendReply(m) ==
    /\ typed[m].at = "asked"
    /\ \E card \in IF typed[m].tool THEN {"no", "open"} ELSE {"no"} :
          append_turn(m, "assistant", card, typed[m].to)
    /\ Step(m, "answered") /\ busy' = None
    /\ UNCHANGED <<spoken, restarts>>

\* The conversation is gone: nothing is stored, an error is sent.
AppendRefused(m) ==
    /\ \/ typed[m].at \in {"generated", "asked"}
       \/ typed[m].at = "speaking" /\ LoopFree
    /\ ~stuck /\ Target(typed[m].to) \notin convs
    /\ Step(m, "failed") /\ busy' = None
    /\ UNCHANGED <<store, spoken, live, restarts>>

\* A background task of a conversation reports in its card.
CardUpdate(c) ==
    /\ update_latest_tool_turn(c)
    /\ UNCHANGED <<busy, typed, spoken, restarts>>

-----------------------------------------------------------------------------
(* An utterance: the event loop announces it and, at the end, shows it;    *)
(* process_utterance runs in a thread and names no conversation            *)

Reach(u, at) == spoken' = [spoken EXCEPT ![u].at = at]

Hear(u) ==
    /\ LoopFree /\ spoken[u].at = "new"
    /\ Reach(u, "thinking")
    /\ set_status
    /\ UNCHANGED <<store, busy, typed, restarts>>

\* Nothing to answer, or a question instead of an answer: nothing is stored.
NotActedOn(u) ==
    /\ spoken[u].at = "thinking"
    /\ Reach(u, "replied")
    /\ UNCHANGED <<store, busy, typed, live, restarts>>

\* The model has replied.
AppendSpokenUser(u) ==
    /\ spoken[u].at = "thinking"
    /\ append_turn(u, "user", "no", None)
    /\ spoken' = [spoken EXCEPT ![u] = [at |-> "kept", user |-> active]]
    /\ UNCHANGED <<busy, typed, restarts>>

AppendSpokenReply(u) ==
    /\ spoken[u].at = "kept"
    /\ append_turn(u, "assistant", "no", None)
    /\ Reach(u, "replied")
    /\ UNCHANGED <<busy, typed, restarts>>

\* An empty reply is not stored.
NoSpokenReply(u) ==
    /\ spoken[u].at = "kept"
    /\ Reach(u, "replied")
    /\ UNCHANGED <<store, busy, typed, live, restarts>>

\* Mutation: the runner stores what process_utterance has stored already.
ShowAndAppend(u) ==
    /\ LoopFree /\ spoken[u].at = "replied"
    /\ append_turn(u, "assistant", "no", None)
    /\ Reach(u, "shown")
    /\ UNCHANGED <<busy, typed, restarts>>

ShowUtterance(u) ==
    /\ LoopFree /\ spoken[u].at = "replied"
    /\ Reach(u, "shown")
    /\ set_snapshot
    /\ UNCHANGED <<store, busy, typed, restarts>>

\* After the snapshot, instead of it when the utterance stops the listener, or
\* at the end of a listener whose thread raised.
EndProcessing(u) ==
    /\ LoopFree /\ spoken[u].at \in {"thinking", "replied", "shown"}
    /\ Reach(u, "done")
    /\ set_status
    /\ UNCHANGED <<store, busy, typed, restarts>>

-----------------------------------------------------------------------------
(* The process stops and starts again: what is stored stays *)

Restart ==
    /\ restarts < MaxRestarts
    /\ restarts' = restarts + 1
    /\ stuck' = FALSE /\ busy' = None
    /\ typed' = [m \in Typed |-> IF typed[m].at \in {"generated", "speaking", "asked"}
                                 THEN [typed[m] EXCEPT !.at = "failed"] ELSE typed[m]]
    /\ spoken' = [u \in Spoken |-> IF spoken[u].at = "new" THEN spoken[u]
                                   ELSE [spoken[u] EXCEPT !.at = "done"]]
    /\ live' = Fresh
    /\ UNCHANGED <<convs, lastId, active, history>>

Answer(m) ==
    GenerateFails(m) \/ Speak(m) \/ AppendUser(m) \/ AppendReply(m) \/ AppendRefused(m)

Process(u) ==
    \/ NotActedOn(u) \/ AppendSpokenUser(u) \/ AppendSpokenReply(u)
    \/ NoSpokenReply(u) \/ ShowUtterance(u) \/ EndProcessing(u)

Workspace == Create \/ \E c \in Ids : Activate(c) \/ Clear(c) \/ Delete(c) \/ CardUpdate(c)

Next ==
    \/ \E m \in Typed :
          \/ \E c \in (1 .. lastId) \cup {None}, tool \in BOOLEAN : Ask(m, c, tool)
          \/ Answer(m)
    \/ \E u \in Spoken : Hear(u) \/ Process(u)
    \/ Workspace
    \/ Restart

Spec == Init /\ [][Next]_vars

\* The model and the speech synthesis answer or raise, and the event loop gets
\* round to every handler that waits for it however busy the others keep it.
\* Nothing makes anyone ask, speak or press a button.
FairSpec ==
    /\ Spec
    /\ \A m \in Typed : SF_vars(Answer(m))
    /\ \A u \in Spoken : SF_vars(Process(u))

-----------------------------------------------------------------------------
(* Properties *)

\* There is a conversation to be in, it is one of the stored ones, and the
\* store never waits for itself.  _get_active_conversation_id trusts this, and
\* new_conversation inside delete_conversation would break it.
ActiveExists == ~stuck /\ active \in convs

\* No turn outlives its conversation, whatever handler or thread was on the way
\* with it when the conversation was deleted.
NoOrphanTurns == \A c \in Ids \ convs : history[c] = <<>>

\* The turns of an exchange in a conversation.
Of(x, c) == {i \in DOMAIN history[c] : history[c][i].of = x}

Only(x, c, role) == \E i \in Of(x, c) : Of(x, c) = {i} /\ history[c][i].role = role

Both(x, c) ==
    \E i, j \in Of(x, c) :
        /\ Of(x, c) = {i, j} /\ i < j
        /\ history[c][i].role = "user" /\ history[c][j].role = "assistant"

\* A typed exchange is stored whole, message first, in the conversation it named
\* or else in a single one, or it is not stored at all; only a host that stops
\* between the two calls leaves a message without its answer.
TypedWhole ==
    \A m \in Typed : \A c \in Ids :
        \/ Of(m, c) = {}
        \/ /\ typed[m].at = "answered" /\ c = typed[m].user /\ typed[m].to \in {c, None}
           /\ Both(m, c)
        \/ /\ typed[m].at = "asked" \/ (typed[m].at = "failed" /\ restarts > 0)
           /\ c = typed[m].user
           /\ Only(m, c, "user")

\* An utterance is stored at most once, and its answer at most once and never
\* before it in the same conversation, whatever is activated or deleted while
\* the thread is between its two calls.
SpokenOnce ==
    \A u \in Spoken : \A c, d \in Ids : \A i \in Of(u, c), j \in Of(u, d) :
        /\ spoken[u].user # None
        /\ history[c][i].role = history[d][j].role => c = d /\ i = j
        /\ c = d /\ history[c][i].role = "user" /\ history[d][j].role = "assistant" => i < j

\* The id of a deleted conversation is never given out again, so an answer that
\* was on the way to it cannot end up in another conversation.
DeletedStaysDeleted ==
    [][\A c \in Ids : c \notin convs /\ c <= lastId => c \notin convs']_vars

\* A message that was posted is answered or refused, and an utterance is done
\* with: no handler waits for a store that waits for itself.
EveryExchangeEnds ==
    /\ \A m \in Typed : typed[m].at # "new" ~> typed[m].at \in {"answered", "failed"}
    /\ \A u \in Spoken : spoken[u].at # "new" ~> spoken[u].at = "done"
-----------------------------------------------------------------------------
(* Why the first two hold *)

\* Every conversation has an id that the counter has passed.
IdsGivenOut == \A c \in convs : c <= lastId

StoreInv == TypeOK /\ ActiveExists /\ NoOrphanTurns /\ IdsGivenOut

\* Why the other two hold: what a handler and a thread may still have to store is
\* not stored yet, and the event loop, which is in the middle of an answer, lets
\* nobody activate or delete a conversation between the two turns.
TypedSteps ==
    \A m \in Typed :
        /\ typed[m].at \in {"new", "generated", "speaking"} => \A c \in Ids : Of(m, c) = {}
        /\ typed[m].at \in {"generated", "asked"} => busy = m
        /\ typed[m].at = "asked" =>
              /\ typed[m].user \in convs /\ Target(typed[m].to) = typed[m].user
              /\ Only(m, typed[m].user, "user")

SpokenSteps ==
    \A u \in Spoken :
        /\ spoken[u].at \in {"new", "thinking"} => \A c \in Ids : Of(u, c) = {}
        /\ spoken[u].at = "kept" =>
              /\ spoken[u].user # None
              /\ \A c \in Ids : \A i \in Of(u, c) : history[c][i].role = "user"

ExchangeInv == TypedWhole /\ SpokenOnce /\ TypedSteps /\ SpokenSteps
=============================================================================
