--------------------------- MODULE MCConversations ---------------------------
(* A small instance of Conversations. *)
EXTENDS Conversations, TLC

CONSTANTS m1, m2, u1
MCTyped == {m1, m2}
OneTyped == {m1}
MCSpoken == {u1}
=============================================================================
