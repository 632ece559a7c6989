-------------------------- MODULE MCRealtimeServer --------------------------
(* An instance of RealtimeServer for TLC.                                  *)
EXTENDS RealtimeServer, TLC

CONSTANTS d1, o1

OneDevice == {d1}
OneObject == {o1}
=============================================================================
