--------------------------- MODULE MCCollabGroups ---------------------------
(* Instances of CollabGroups for TLC: an owner, and a guest who may not    *)
(* read the collab.                                                        *)
EXTENDS CollabGroups

CONSTANTS owner, guest, edit

TwoUsers == {owner, guest}
OwnerOnly == {owner}
OneUpdate == {edit}
NoUpdate == {}
=============================================================================
