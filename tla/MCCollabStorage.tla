--------------------------- MODULE MCCollabStorage ---------------------------
(* Instances of CollabStorage for TLC.                                     *)
EXTENDS CollabStorage, TLC

CONSTANTS u1, u2, w1, w2, d1, d2, a, b, bad

TwoUsers == {u1, u2}
TwoWorkspaces == {w1, w2}
TwoDocs == {d1, d2}
AllInFirst == [o \in Collabs |-> IF o = w2 THEN w2 ELSE w1]
NoKeys == {}
OwnerAndMember == [w \in Workspaces |-> [u \in Users |->
  IF u = u1 THEN "Owner" ELSE IF w = w1 THEN "Member" ELSE None]]
FirstStored == [o \in Objects |-> IF o = d1 THEN a ELSE None]
BothOrders == {<<d1, d2>>, <<d2, d1>>}
=============================================================================
