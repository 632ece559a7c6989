---------------------------- MODULE MCCollabSync ----------------------------
(* Instances of CollabSync for TLC.                                        *)
EXTENDS CollabSync, TLC

CONSTANTS u1, u2, a1

TwoUpdates == {u1, u2}
OneUpdate == {u1}
OneAwareness == {a1}
NoEdits == {}

(* The updates are interchangeable wherever none of them is offline.       *)
Symmetry == Permutations(TwoUpdates)

(* The faults after which no update may be forgotten, and those after which *)
(* the queue must still drain: cannotApply stops the observer.             *)
Survivable == {"loss", "duplication", "cannotApply", "load", "sinkBusy", "sendError", "slow"}
AllButStopping == (Survivable \ {"cannotApply"}) \cup {"retry", "secondRunner", "collabBusy"}
=============================================================================
