----------------------------- MODULE MCWSClient -----------------------------
(* Instances of WSClient for TLC.                                          *)
EXTENDS WSClient, TLC
=============================================================================
