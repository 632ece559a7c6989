------------------------------ MODULE MCMembers ------------------------------
(* Instances of Members for TLC.                                           *)
EXTENDS Members, TLC

CONSTANTS u1, u2, w1, w2

TwoUsers == {u1, u2}
TwoWorkspaces == {w1, w2}
NoDocs == {}
Folders == [w \in Workspaces |-> w]
OneFounder == [w \in Workspaces |-> IF w = w1 THEN u1 ELSE None]
OneInvited == {[w |-> w1, u |-> u2, role |-> "Member", accepted |-> FALSE]}
OneKey == {<<u2, w1>>}
=============================================================================
