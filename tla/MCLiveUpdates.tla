---------------------------- MODULE MCLiveUpdates ----------------------------
(* A small instance of LiveUpdates. *)
EXTENDS LiveUpdates, TLC

CONSTANTS m1, u1, k1, k2
MCTyped == {m1}
MCSpoken == {u1}
MCClients == {k1}
=============================================================================
