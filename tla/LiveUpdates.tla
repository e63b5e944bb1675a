----------------------------- MODULE LiveUpdates -----------------------------
(***************************************************************************)
(* What a client sees of the conversations: it keeps a copy of the one it  *)
(* shows, it is told of changes by the stream /live/stream, and it fetches *)
(* by POST .../activate, which also makes its conversation the active one. *)
(* The stream carries revisions of one live state: what changed twice      *)
(* before the stream looks again is told once, with the last change's kind.*)
(*                                                                         *)
(* A client has at most one refresh and one request of its user under way; *)
(* their answers arrive in any order.                                      *)
(***************************************************************************)
EXTENDS Conversations

CONSTANTS Clients,
          MaxSelects   \* bound on how often a client's user picks a conversation

VARIABLES stream,   \* the generator of a client's event stream, and what it sent
          client    \* the client's state

clientVars == <<stream, client>>
allVars == <<vars, clientVars>>

NoRequest == [at |-> "none"]
Asked(c) == [at |-> "asked", conv |-> c]
Answered(c, turns) == [at |-> "answered", conv |-> c, turns |-> turns]
NoEvent == [Fresh EXCEPT !.kind = "nothing"]

\* last: last_rev of the generator; sent: the event on its way
LiveInit ==
    /\ Init
    /\ stream = [k \in Clients |-> [up |-> TRUE, last |-> 0, sent |-> NoEvent]]
    /\ client = [k \in Clients |-> [shown |-> 1, copy |-> <<>>, rev |-> 0, seq |-> 0,
          sending |-> None, refresh |-> NoRequest, own |-> NoRequest, selects |-> 0]]

-----------------------------------------------------------------------------
(* The stream *)

Connect(k) ==
    /\ ~stream[k].up
    /\ stream' = [stream EXCEPT ![k] = [up |-> TRUE, last |-> live.rev, sent |-> live]]
    /\ UNCHANGED <<vars, client>>

\* wait_next returns a revision it has not returned before.
Push(k) ==
    /\ stream[k].up /\ stream[k].sent = NoEvent
    /\ live.rev > stream[k].last
    /\ stream' = [stream EXCEPT ![k] = [@ EXCEPT !.last = live.rev, !.sent = live]]
    /\ UNCHANGED <<vars, client>>

MustRefresh(k, event) ==
    /\ event.conv \in {None, client[k].shown}
    /\ client[k].sending = None
    /\ \/ event.seq # 0 /\ event.seq # client[k].seq
       \/ event.kind \in {"conversation", "agent_action"}
       \/ \E i \in DOMAIN client[k].copy : client[k].copy[i].card = "open"

\* handleIncomingLiveSnapshot and refreshActiveConversation: a revision that is
\* known is ignored, a refresh already under way is not repeated.
Receive(k) ==
    LET event == stream[k].sent
        heard == [client[k] EXCEPT !.rev = event.rev, !.seq = event.seq]
    IN /\ stream[k].up /\ event # NoEvent
       /\ stream' = [stream EXCEPT ![k].sent = NoEvent]
       /\ client' = [client EXCEPT ![k] =
             IF event.rev # 0 /\ event.rev = client[k].rev THEN @
             ELSE IF MustRefresh(k, event) /\ client[k].refresh = NoRequest
                  THEN [heard EXCEPT !.refresh = Asked(client[k].shown)]
                  ELSE heard]
       /\ UNCHANGED vars

-----------------------------------------------------------------------------
(* Requests of a client and their answers *)

Select(k, c) ==
    /\ client[k].selects < MaxSelects
    /\ client[k].own = NoRequest /\ client[k].sending = None
    /\ c \in convs \ {client[k].shown}
    /\ client' = [client EXCEPT ![k] = [@ EXCEPT !.own = Asked(c), !.selects = client[k].selects + 1]]
    /\ UNCHANGED <<vars, stream>>

\* The host answers a refresh or a request of the user.
Fetch(k, which) ==
    /\ client[k][which].at = "asked"
    /\ LET c == client[k][which].conv
       IN \/ /\ Activate(c)
             /\ client' = [client EXCEPT ![k][which] = Answered(c, history[c])]
          \/ /\ LoopFree /\ c \notin convs
             /\ client' = [client EXCEPT ![k] = [@ EXCEPT ![which] = NoRequest,
                   !.sending = IF which = "own" THEN None ELSE client[k].sending]]
             /\ UNCHANGED vars
    /\ UNCHANGED stream

Sync(k, which) ==
    /\ client[k][which].at = "answered"
    /\ client' = [client EXCEPT ![k] = [@ EXCEPT
          !.shown = client[k][which].conv, !.copy = client[k][which].turns,
          ![which] = NoRequest, !.sending = IF which = "own" THEN None ELSE client[k].sending]]
    /\ UNCHANGED <<vars, stream>>

\* handleSendMessage, up to the request; the answer is followed by a fetch.
Send(k, m) ==
    /\ client[k].sending = None /\ client[k].own = NoRequest
    /\ \E tool \in BOOLEAN : Ask(m, client[k].shown, tool)
    /\ client' = [client EXCEPT ![k].sending = m]
    /\ UNCHANGED stream

Sent(k) ==
    /\ client[k].sending # None /\ client[k].own = NoRequest
    /\ LET m == client[k].sending
       IN /\ typed[m].at \in {"answered", "failed"}
          /\ client' = [client EXCEPT ![k] =
                IF typed[m].at = "answered" THEN [@ EXCEPT !.own = Asked(typed[m].to)]
                ELSE [@ EXCEPT !.sending = None]]
    /\ UNCHANGED <<vars, stream>>

\* With the host go its streams and what it was answering.
HostRestart ==
    /\ Restart
    /\ stream' = [k \in Clients |-> [up |-> FALSE, last |-> 0, sent |-> NoEvent]]
    /\ UNCHANGED client

Client(k) ==
    \/ Connect(k) \/ Push(k) \/ Receive(k)
    \/ \E c \in Ids : Select(k, c)
    \/ \E which \in {"refresh", "own"} : Fetch(k, which) \/ Sync(k, which)
    \/ \E m \in Typed : Send(k, m)
    \/ Sent(k)

\* Everything else a host does concerns no particular client.
Host ==
    /\ \/ \E m \in Typed : Ask(m, None, FALSE) \/ Answer(m)
       \/ \E u \in Spoken : Hear(u) \/ Process(u)
       \/ Create
       \/ \E c \in Ids : Clear(c) \/ Delete(c) \/ CardUpdate(c)
    /\ UNCHANGED clientVars

LiveNext == Host \/ HostRestart \/ \E k \in Clients : Client(k)

LiveSpec == LiveInit /\ [][LiveNext]_allVars

\* The event loop serves every handler in turn, the model and the speech
\* synthesis answer or raise, a stream reconnects and is read.  Nothing makes
\* anyone ask, speak, pick, delete or restart.
Fairness ==
    /\ \A m \in Typed : SF_allVars(Answer(m) /\ UNCHANGED clientVars)
    /\ \A k \in Clients : WF_allVars(Connect(k)) /\ WF_allVars(Push(k)) /\ WF_allVars(Receive(k))
    /\ \A k \in Clients, which \in {"refresh", "own"} :
          SF_allVars(Fetch(k, which)) /\ WF_allVars(Sync(k, which))
    /\ \A k \in Clients : WF_allVars(Sent(k))
    /\ \A u \in Spoken : SF_allVars(Process(u) /\ UNCHANGED clientVars)

FairLiveSpec == LiveSpec /\ Fairness

-----------------------------------------------------------------------------
(* Properties *)

\* What a client shows in the end is what the host has stored: the stream is
\* said to carry conversation updates to it (docs/architecture.md).  It does
\* not hold: an update whose revision is overtaken by one of another kind, or
\* that comes while the client sends or refreshes, is never fetched.
ClientCatchesUp ==
    \A k \in Clients : []<>(client[k].shown \in convs => client[k].copy = history[client[k].shown])

\* The turns of typed exchanges in a copy of conversation c: of messages that
\* were stored there, none twice, and no reply without the message before it.
StoredAs(turns, c) ==
    \A i \in DOMAIN turns :
        turns[i].of \in Typed =>
            /\ typed[turns[i].of].user = c
            /\ \A j \in DOMAIN turns :
                  turns[j].of = turns[i].of /\ turns[j].role = turns[i].role => j = i
            /\ turns[i].role = "assistant" =>
                  \E j \in 1 .. i - 1 : turns[j].of = turns[i].of /\ turns[j].role = "user"

\* A client may be late, but it never shows an exchange under a conversation it
\* does not belong to, half of one that was answered without the question, or one
\* twice, in whatever order refreshes, selections and its own messages come back.
ShownAsStored == \A k \in Clients : StoredAs(client[k].copy, client[k].shown)

-----------------------------------------------------------------------------
(* Why it holds, and why a host with clients is a host as in Conversations *)

Request ==
    [at : {"none"}] \cup [at : {"asked"}, conv : Ids]
        \cup [at : {"answered"}, conv : Ids, turns : Seq(Turn)]

Event == [rev : Nat, seq : Nat, kind : Kinds \cup {"nothing"}, conv : Ids \cup {None}]
Stream == [up : BOOLEAN, last : Nat, sent : Event]

ClientState ==
    [shown : Ids, copy : Seq(Turn), rev : Nat, seq : Nat, sending : Typed \cup {None},
     refresh : Request, own : Request, selects : Nat]

\* A request names a conversation whose id was given out, and what is on its way
\* to the client is as stored.
RequestSound(r) ==
    /\ r.at # "none" => r.conv <= lastId
    /\ r.at = "answered" => StoredAs(r.turns, r.conv)

\* So is what the client shows; a message it waits for was posted to such a conversation.
ClientSound(s) ==
    /\ s.shown <= lastId /\ StoredAs(s.copy, s.shown)
    /\ RequestSound(s.refresh) /\ RequestSound(s.own)
    /\ s.sending # None => typed[s.sending].at # "new" /\ typed[s.sending].to \in 1 .. lastId

\* A message has no conversation before it is stored, and keeps the one it gets.
StoredLater ==
    \A m \in Typed : typed[m].at \in {"new", "generated", "speaking"} => typed[m].user = None

ClientInv ==
    /\ client \in [Clients -> ClientState] /\ stream \in [Clients -> Stream]
    /\ \A k \in Clients : ClientSound(client[k])
    /\ StoredLater
=============================================================================
