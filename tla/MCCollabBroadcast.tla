------------------------- MODULE MCCollabBroadcast -------------------------
(* An instance of CollabBroadcast for TLC.                                 *)
EXTENDS CollabBroadcast

CONSTANTS c1, c2, u1, u2

TwoClients == {c1, c2}
TwoUpdates == {u1, u2}
=============================================================================
