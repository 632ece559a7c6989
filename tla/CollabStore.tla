----------------------------- MODULE CollabStore -----------------------------
(***************************************************************************)
(* What the storage of collabs promises, whatever its cache does: a write  *)
(* takes effect on all of its collabs at once or on none, a collab is      *)
(* found unless it was never written or is deleted, and what a reader gets *)
(* was written to that collab by a request that was allowed to, although   *)
(* perhaps not the last one and perhaps one that failed in the end.        *)
(***************************************************************************)
EXTENDS Naturals

CONSTANTS Objects, Data, Slots, None, NotFound, Failed

VARIABLES
  value,    \* the data of each collab that is durable
  deleted,  \* the collabs that are deleted
  offered,  \* the data that requests were allowed to write, per collab
  pending,  \* the write a slot is about
  answers   \* the answer a slot is about to give

storeVars == <<value, deleted, offered, pending, answers>>

Write == [objects : SUBSET Objects, data : Data]
Answer == [object : Objects, result : Data \cup {NotFound, Failed}]

StoreInit ==
  /\ value \in [Objects -> Data \cup {None}]
  /\ deleted = {}
  /\ offered = [o \in Objects |-> {value[o]} \ {None}]
  /\ pending = [s \in Slots |-> None]
  /\ answers = [s \in Slots |-> None]

StartWrite(s) ==
  /\ pending[s] = None
  /\ \E w \in Write : pending' = [pending EXCEPT ![s] = w]
  /\ UNCHANGED <<value, deleted, offered, answers>>

Offer(s) ==
  /\ pending[s] # None
  /\ \E o \in pending[s].objects :
       offered' = [offered EXCEPT ![o] = @ \cup {pending[s].data}]
  /\ UNCHANGED <<value, deleted, pending, answers>>

CommitAll(s) ==
  /\ pending[s] # None
  /\ \A o \in pending[s].objects : pending[s].data \in offered[o]
  /\ value' = [o \in Objects |-> IF o \in pending[s].objects THEN pending[s].data ELSE value[o]]
  /\ pending' = [pending EXCEPT ![s] = None]
  /\ UNCHANGED <<deleted, offered, answers>>

GiveUp(s) ==
  /\ pending[s] # None
  /\ pending' = [pending EXCEPT ![s] = None]
  /\ UNCHANGED <<value, deleted, offered, answers>>

Delete(o) ==
  /\ deleted' = deleted \cup {o}
  /\ UNCHANGED <<value, offered, pending, answers>>

MayAnswer(a) ==
  \/ a.result = Failed
  \/ a.result = NotFound /\ (value[a.object] = None \/ a.object \in deleted)
  \/ a.result \in offered[a.object]

Respond(s) ==
  /\ answers[s] = None
  /\ \E a \in Answer : MayAnswer(a) /\ answers' = [answers EXCEPT ![s] = a]
  /\ UNCHANGED <<value, deleted, offered, pending>>

Close(s) ==
  /\ answers' = [answers EXCEPT ![s] = None]
  /\ UNCHANGED <<value, deleted, offered, pending>>

StoreNext ==
  \/ \E s \in Slots : StartWrite(s) \/ Offer(s) \/ CommitAll(s) \/ GiveUp(s) \/ Respond(s) \/ Close(s)
  \/ \E o \in Objects : Delete(o)

StoreSpec == StoreInit /\ [][StoreNext]_storeVars
=============================================================================
