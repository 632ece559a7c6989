-------------------------- MODULE MCSnapshotControl --------------------------
(* An instance of SnapshotControl for TLC.                                  *)
EXTENDS SnapshotControl

CONSTANTS o1, q1

OneObject == {o1}
OneRequest == {q1}
=============================================================================
