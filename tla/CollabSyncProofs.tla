--------------------------- MODULE CollabSyncProofs ---------------------------
(***************************************************************************)
(* Proofs about CollabSync, for every set of updates, every bound and      *)
(* every set of faults: the type invariant and the uniqueness of message   *)
(* ids; for a sink that does not merge and whose threads find the collab   *)
(* lock free, that no update is ever forgotten; and for one that merges    *)
(* document updates on a network that loses nothing, that none vanishes.   *)
(***************************************************************************)
EXTENDS CollabSync, WellFoundedInduction, TLAPS

(* One name for each disjunct of Next, for the case splits below.          *)
ActionStep ==
  \/ DidInit \/ (\E u \in Edits : BeginEdit(u)) \/ PushEdit \/ EndEdit
  \/ RunnerStep \/ Send \/ SendFails \/ IntervalTick
  \/ (\E a \in down : ReceiveAccepted(a)) \/ (\E a \in down : ReceiveRefused(a))
  \/ (\E a \in down : ReceiveCannotApply(a))
  \/ AnswerSyncStep1 \/ DropSyncStep1 \/ MissedBroadcast
  \/ Disconnect \/ Reconnect
  \/ ListenLost \/ ListenConnected \/ ListenConnectedBusy
  \/ (\E m \in up : ServerInitSync(m)) \/ (\E m \in up : ServerApply(m))
  \/ (\E m \in up : ServerDrops(m)) \/ (\E m \in up : ServerCannotApply(m))
  \/ (\E m \in up : ServerLoadsLess(m)) \/ (\E m \in up : ServerCreatesAgain(m))
  \/ ServerForgets \/ RemoveGroup \/ ServerCrash \/ Lose

(* A step of Next is a step of one of the actions the proofs treat.         *)
LEMMA NextIsActionStep == Next => ActionStep
  BY DEF Next, ActionStep, Edit, Observe, Listen, Serve

-----------------------------------------------------------------------------
(* What the sink's operations do to the types of the sink's variables.     *)
LEMMA NewMsgType ==
  ASSUME SinkTypeOK, NEW kind \in Kinds, NEW ops \in SUBSET Edits
  PROVE  NewMsg(kind, ops) \in Message
  BY DEF SinkTypeOK, NewMsg, Message

(* Merging two payloads (UpdateSync::merge_payload) gives a payload.        *)
LEMMA PayloadType ==
  ASSUME NEW msgs \in SUBSET Message, NEW h \in Message, NEW limit
  PROVE  Payload(msgs, h, limit) \in SUBSET Edits
  BY DEF Payload, Mergeable, Message

(* The queue that merge leaves is a set of messages.                        *)
LEMMA MergedType ==
  ASSUME NEW msgs \in SUBSET Message, NEW q \in Merged(msgs)
  PROVE  q \in SUBSET Message
<1>1. CASE DisableMergeMessage
  BY <1>1 DEF Merged
<1>2. CASE ~DisableMergeMessage
  <2>1. PICK heads \in SUBSET Mergeable(msgs) : q = Absorb(msgs, heads)
    BY <1>2 DEF Merged
  <2>2. heads \subseteq msgs
    BY <2>1 DEF Mergeable
  <2>3. ASSUME NEW h \in heads
        PROVE  [h EXCEPT !.ops = Payload(msgs, h, NextHead(msgs, heads, h))] \in Message
    <3>1. h \in Message
      BY <2>2, <2>3
    <3>2. Payload(msgs, h, NextHead(msgs, heads, h)) \in SUBSET Edits
      BY <3>1, PayloadType
    <3> QED BY <3>1, <3>2 DEF Message
  <2> QED BY <2>1, <2>3 DEF Absorb
<1> QED BY <1>1, <1>2

(* The queue of connection events stays one when an end of it changes.      *)
LEMMA EventsType ==
  ASSUME NEW s \in Seq({"Connected", "Lost"}), NEW e \in {"Connected", "Lost"}
  PROVE  /\ Append(s, e) \in Seq({"Connected", "Lost"})
         /\ s # <<>> => Tail(s) \in Seq({"Connected", "Lost"})
  OBVIOUS

(* A disruption that the bound admits keeps the counter in its type.        *)
LEMMA DisruptType ==
  ASSUME disruptions \in 0 .. MaxDisruptions, Disrupt
  PROVE  disruptions' \in 0 .. MaxDisruptions
  BY SyncAssumption DEF Disrupt

(* The answers the server gives to a batch are acks.                        *)
LEMMA AnswerType ==
  ASSUME down \in SUBSET Ack, NEW m \in Message, NEW code \in AckCodes,
         NEW reply \in BOOLEAN, NEW sv \in SUBSET Updates, Answer(m, code, reply, sv)
  PROVE  down' \in SUBSET Ack
<1>1. m.id \in Nat
  BY DEF Message
<1> QED BY <1>1 DEF Answer, Ack

(* StartInitSync keeps the sink's variables in their types.                 *)
LEMMA InitSyncType ==
  ASSUME SinkTypeOK, localDoc \in SUBSET Edits, NEW missed,
         QueueInitSync(localDoc, missed)
  PROVE  /\ queue' \in SUBSET Message
         /\ flying' \in SUBSET Nat
         /\ counter' \in Nat
         /\ sinkState' \in SinkStates
         /\ notified' \in BOOLEAN
<1>1. NewMsg("ClientInitSync", localDoc) \in Message
  BY NewMsgType DEF Kinds
<1> QED BY <1>1 DEF QueueInitSync, AnnounceSyncing, SinkTypeOK, SinkStates

(* The tail of a sequence of two or more keeps its last element.            *)
LEMMA TailLast ==
  ASSUME NEW s \in Seq({"Connected", "Lost"}), s # <<>>
  PROVE  /\ Tail(s) = <<>> => s[Len(s)] = Head(s)
         /\ Tail(s) # <<>> => Tail(s)[Len(Tail(s))] = s[Len(s)]
  OBVIOUS

(* Every step keeps the types.                                             *)
LEMMA TypeStep ==
  ASSUME TypeOK, [Next]_vars
  PROVE  TypeOK'
<1> USE SyncAssumption, SinkAssumption
<1> USE DEF TypeOK, SinkTypeOK, clientVars, connVars, serverVars, SinkStates, RunnerStates
<1>1. CASE DidInit
  BY <1>1, InitSyncType DEF DidInit
<1>2. ASSUME NEW u \in Edits, BeginEdit(u) PROVE TypeOK'
  BY <1>2 DEF BeginEdit, AnnounceSyncing, Edits, UpdateSync
<1>3. CASE PushEdit
  <2>1. NewMsg(editKind, editOps) \in Message
    BY NewMsgType DEF Kinds
  <2> QED BY <1>3, <2>1 DEF PushEdit, PushMsg
<1>4. CASE EndEdit
  <2>1. queue' \in SUBSET Message
    BY <1>4, MergedType DEF EndEdit
  <2>2. disruptions' \in 0 .. MaxDisruptions
    BY <1>4, DisruptType DEF EndEdit, Fault
  <2> QED BY <1>4, <2>1, <2>2 DEF EndEdit, UpdateSync
<1>5. CASE RunnerStep
  <2>1. CASE ProcessPaused
    BY <1>5, <2>1 DEF RunnerStep, ProcessPaused
  <2>2. CASE ProcessNextMsg
    <3>1. PICK taken \in SUBSET queue :
            /\ batch' = taken
            /\ flying' = flying \cup Ids(taken)
            /\ runner' = IF taken = {} THEN "waiting" ELSE "sending"
      BY <2>2 DEF ProcessNextMsg
    <3>2. Ids(taken) \subseteq Nat
      BY DEF Ids, Message
    <3> QED BY <1>5, <2>2, <3>1, <3>2 DEF RunnerStep, ProcessNextMsg
  <2> QED BY <1>5, <2>1, <2>2 DEF RunnerStep
<1>6. CASE Send
  BY <1>6 DEF Send, SendBatch
<1>7. CASE SendFails
  <2>1. disruptions' \in 0 .. MaxDisruptions
    BY <1>7, DisruptType DEF SendFails, Fault
  <2>2. SinkTypeOK'
    BY <1>7 DEF SendFails, SendBatchFails
  <2> QED BY <1>7, <2>1, <2>2 DEF SendFails
<1>8. CASE IntervalTick
  <2>1. disruptions' \in 0 .. MaxDisruptions
    BY <1>8, DisruptType DEF IntervalTick, Fault
  <2> QED BY <1>8, <2>1 DEF IntervalTick, Tick
<1>9. ASSUME NEW a \in down, ReceiveAccepted(a) PROVE TypeOK'
  <2>1. a.sv \in SUBSET Updates /\ a.reply \in BOOLEAN
    BY DEF Ack
  <2>2. disruptions' \in 0 .. MaxDisruptions
    BY <1>9, DisruptType DEF ReceiveAccepted, Takes, Fault
  <2>3. down' \in SUBSET Ack
    BY <1>9 DEF ReceiveAccepted, Takes
  <2> QED BY <1>9, <2>1, <2>2, <2>3 DEF ReceiveAccepted, AcceptResponse
<1>10. ASSUME NEW a \in down, ReceiveRefused(a) PROVE TypeOK'
  BY <1>10, DisruptType DEF ReceiveRefused, Takes, RefuseResponse, Fault
<1>11. ASSUME NEW a \in down, ReceiveCannotApply(a) PROVE TypeOK'
  BY <1>11, DisruptType DEF ReceiveCannotApply, Takes, Fault, sinkVars
<1>12. CASE AnswerSyncStep1
  <2>1. NewMsg("ServerInitSync", (localDoc \cap Updates) \ replySv) \in Message
    BY NewMsgType DEF Kinds
  <2>2. queue' \in SUBSET Message
    <3> DEFINE pushed == queue \cup {NewMsg("ServerInitSync", (localDoc \cap Updates) \ replySv)}
    <3>1. queue' \in Merged(pushed)
      BY <1>12 DEF AnswerSyncStep1, QueueMsg
    <3>2. pushed \in SUBSET Message
      BY <2>1
    <3> HIDE DEF pushed
    <3> QED BY <3>1, <3>2, MergedType
  <2> QED BY <1>12, <2>2 DEF AnswerSyncStep1, QueueMsg, AnnounceSyncing
<1>13. CASE DropSyncStep1
  BY <1>13 DEF DropSyncStep1
<1>14. CASE MissedBroadcast
  BY <1>14, InitSyncType, DisruptType DEF MissedBroadcast
<1>15. CASE Disconnect
  BY <1>15, EventsType, DisruptType DEF Disconnect, sinkVars
<1>16. CASE Reconnect
  BY <1>16, EventsType DEF Reconnect, sinkVars
<1>17. CASE ListenLost
  BY <1>17, EventsType DEF ListenLost, Pause
<1>18. CASE ListenConnected
  <2>1. PICK missed \in SUBSET {"queue", "flying"} :
          /\ QueueInitSync(localDoc, missed)
          /\ IF missed = {} THEN UNCHANGED disruptions ELSE Fault("sinkBusy")
    BY <1>18 DEF ListenConnected, StartInitSync
  <2>2. disruptions' \in 0 .. MaxDisruptions
    BY <2>1, DisruptType DEF Fault
  <2>3. /\ queue' \in SUBSET Message /\ flying' \in SUBSET Nat
        /\ counter' \in Nat /\ sinkState' \in SinkStates /\ notified' \in BOOLEAN
    BY <2>1, InitSyncType
  <2> QED BY <1>18, <2>2, <2>3, EventsType DEF ListenConnected, Resume
<1>19. CASE ListenConnectedBusy
  BY <1>19, EventsType DEF ListenConnectedBusy, sinkVars
<1>20. ASSUME NEW m \in up, NEW loaded \in SUBSET Updates, Welcome(m, loaded),
              up' \subseteq up, disruptions' \in 0 .. MaxDisruptions
       PROVE  TypeOK'
  <2>1. down' \in SUBSET Ack
    BY <1>20, AnswerType DEF Welcome, AckCodes
  <2> QED BY <1>20, <2>1 DEF Welcome, Subscribe, sinkVars
<1>28. ASSUME NEW m \in up, ServerInitSync(m) PROVE TypeOK'
  <2>1. disruptions' \in 0 .. MaxDisruptions /\ up' \subseteq up
    BY <1>28, DisruptType DEF ServerInitSync, Arrives, Fault
  <2> QED BY <1>20, <1>28, <2>1 DEF ServerInitSync, ServerDoc
<1>29. ASSUME NEW m \in up, ServerLoadsLess(m) \/ ServerCreatesAgain(m) PROVE TypeOK'
  <2>1. disruptions' \in 0 .. MaxDisruptions /\ up' \subseteq up
    BY <1>29, DisruptType DEF ServerLoadsLess, ServerCreatesAgain, Fault
  <2> QED BY <1>20, <1>29, <2>1 DEF ServerLoadsLess, ServerCreatesAgain
<1>30. CASE ServerForgets
  BY <1>30 DEF ServerForgets, sinkVars
<1>21. ASSUME NEW m \in up, ServerApply(m) PROVE TypeOK'
  <2>1. disruptions' \in 0 .. MaxDisruptions
    BY <1>21, DisruptType DEF ServerApply, Arrives, Fault
  <2>2. down' \in SUBSET Ack
    BY <1>21, AnswerType DEF ServerApply, AckCodes, ServerDoc
  <2> QED BY <1>21, <2>1, <2>2 DEF ServerApply, Arrives, Subscribe, sinkVars
<1>22. ASSUME NEW m \in up, ServerDrops(m) PROVE TypeOK'
  BY <1>22, DisruptType DEF ServerDrops, Arrives, Fault, sinkVars
<1>23. ASSUME NEW m \in up, ServerCannotApply(m) PROVE TypeOK'
  <2>1. disruptions' \in 0 .. MaxDisruptions
    BY <1>23, DisruptType DEF ServerCannotApply, Fault
  <2>2. PICK code \in AckCodes : Answer(m, code, FALSE, {})
    BY <1>23 DEF ServerCannotApply, AckCodes
  <2>3. down' \in SUBSET Ack
    BY <2>2, AnswerType
  <2> QED BY <1>23, <2>1, <2>3 DEF ServerCannotApply, Subscribe, sinkVars
<1>24. CASE RemoveGroup
  <2>1. stored' \in SUBSET Updates /\ versions' \in SUBSET SUBSET Updates
    BY <1>24 DEF RemoveGroup
  <2> QED BY <1>24, <2>1 DEF RemoveGroup, sinkVars
<1>25. CASE ServerCrash
  BY <1>25, EventsType, DisruptType DEF ServerCrash, sinkVars
<1>26. CASE Lose
  BY <1>26, DisruptType DEF Lose, Fault, sinkVars
<1>27. CASE UNCHANGED vars
  BY <1>27 DEF vars, sinkVars
<1> QED
  BY <1>1, <1>2, <1>3, <1>4, <1>5, <1>6, <1>7, <1>8, <1>9, <1>10, <1>11, <1>12, <1>13, <1>14, <1>15, <1>16, <1>17, <1>18, <1>19, <1>20, <1>21, <1>22, <1>23, <1>24, <1>25, <1>26, <1>27, <1>28, <1>29, <1>30, NextIsActionStep DEF ActionStep

(* The initial state has the right types.                                   *)
LEMMA TypeInit == Init => TypeOK
<1> SUFFICES ASSUME Init PROVE TypeOK
  OBVIOUS
<1>1. SinkTypeOK
  BY DEF Init, SinkInit, SinkTypeOK, SinkStates, RunnerStates
<1>2. connEvents \in Seq({"Connected", "Lost"}) /\ disruptions \in 0 .. MaxDisruptions
  BY SyncAssumption DEF Init
<1>3. localDoc \in SUBSET Edits
  BY SyncAssumption DEF Init, Edits
<1>4. stored \in SUBSET Updates /\ versions \in SUBSET SUBSET Updates
  BY SyncAssumption DEF Init
<1> QED BY <1>1, <1>2, <1>3, <1>4 DEF Init, TypeOK, UpdateSync

(* Every variable keeps its type: the detailed shape of the sink, the      *)
(* threads, the network and the server, for all constants and all faults.  *)
THEOREM TypeCorrect == Spec => []TypeOK
<1>1. Init => TypeOK
  BY TypeInit
<1>2. TypeOK /\ [Next]_vars => TypeOK'
  BY TypeStep
<1> QED BY <1>1, <1>2, PTL DEF Spec

-----------------------------------------------------------------------------
(* Ids stay issued and unique when messages leave the queue, change their   *)
(* payload or are joined by one with the next id.                           *)
LEMMA MergedIds ==
  ASSUME NEW msgs \in SUBSET Message, NEW q \in Merged(msgs),
         \A m, n \in msgs : m.id = n.id => m = n
  PROVE  /\ \A y \in q : \E m \in msgs : m.id = y.id /\ m.kind = y.kind
         /\ \A y, z \in q : y.id = z.id => y = z
<1>1. CASE DisableMergeMessage
  BY <1>1 DEF Merged
<1>2. CASE ~DisableMergeMessage
  <2>1. PICK heads \in SUBSET Mergeable(msgs) : q = Absorb(msgs, heads)
    BY <1>2 DEF Merged
  <2>. DEFINE F(h) == [h EXCEPT !.ops = Payload(msgs, h, NextHead(msgs, heads, h))]
  <2>2. /\ heads \subseteq Mergeable(msgs) /\ Mergeable(msgs) \subseteq msgs
        /\ q = (msgs \ Mergeable(msgs)) \cup {F(h) : h \in heads}
    BY <2>1 DEF Mergeable, Absorb
  <2>3. \A h \in heads : F(h).id = h.id /\ F(h).kind = h.kind
    <3>1. \A h \in heads : h \in Message
      BY <2>2
    <3>. QED  BY <3>1 DEF Message
  <2>. HIDE DEF F
  <2>. QED  BY <2>2, <2>3
<1>. QED  BY <1>1, <1>2

(* The invariant, element by element.                                       *)
LEMMA IssuedElements ==
  ASSUME NEW top,
         \A m \in queue' : m.id \in 0 .. top, \A m \in batch' : m.id \in 0 .. top,
         flying' \subseteq 0 .. top, counter' - 1 = top,
         \A m, n \in queue' : m.id = n.id => m = n
  PROVE  IdsIssuedOnce'
<1>1. Ids(queue)' \subseteq 0 .. top
  BY DEF Ids
<1>2. Ids(batch)' \subseteq 0 .. top
  BY DEF Ids
<1>. QED  BY <1>1, <1>2 DEF IdsIssuedOnce

(* A message with the next id joins a part of the queue.                    *)
LEMMA IssuedPush ==
  ASSUME SinkTypeOK, IdsIssuedOnce, NEW kept \in SUBSET queue, NEW new,
         new.id = counter, queue' = kept \cup {new}, counter' = counter + 1,
         flying' \subseteq flying, batch' = batch
  PROVE  IdsIssuedOnce'
<1>1. /\ \A m \in queue : m.id \in 0 .. (counter - 1)
      /\ \A m \in batch : m.id \in 0 .. (counter - 1)
      /\ flying \subseteq 0 .. (counter - 1) /\ counter \in Nat
  BY DEF IdsIssuedOnce, Ids, SinkTypeOK
<1>2. counter' - 1 = counter
  BY <1>1
<1>3. /\ \A m \in queue' : m.id \in 0 .. counter
      /\ \A m \in batch' : m.id \in 0 .. counter
      /\ flying' \subseteq 0 .. counter
  BY <1>1
<1>4. \A m, n \in queue' : m.id = n.id => m = n
  BY <1>1 DEF IdsIssuedOnce
<1>. QED  BY <1>2, <1>3, <1>4, IssuedElements

(* Messages leave the queue or change, ids stop flying or the messages the  *)
(* runner takes start to.                                                   *)
LEMMA IssuedKept ==
  ASSUME SinkTypeOK, IdsIssuedOnce, counter' = counter,
         \A y \in queue' : \E m \in queue : m.id = y.id,
         \A y, z \in queue' : y.id = z.id => y = z,
         batch' \subseteq batch \cup queue,
         flying' \subseteq flying \cup Ids(queue)
  PROVE  IdsIssuedOnce'
<1>1. /\ \A m \in queue : m.id \in 0 .. (counter - 1)
      /\ \A m \in batch : m.id \in 0 .. (counter - 1)
      /\ flying \cup Ids(queue) \subseteq 0 .. (counter - 1)
  BY DEF IdsIssuedOnce, Ids
<1>2. /\ \A m \in queue' : m.id \in 0 .. (counter - 1)
      /\ \A m \in batch' : m.id \in 0 .. (counter - 1)
      /\ flying' \subseteq 0 .. (counter - 1)
  BY <1>1
<1>. QED  BY <1>2, IssuedElements

(* Every step of the client, the network and the server keeps ids apart.    *)
LEMMA IssuedStep ==
  ASSUME TypeOK, IdsIssuedOnce, [Next]_vars
  PROVE  IdsIssuedOnce'
<1>0. SinkTypeOK /\ \A m, n \in queue : m.id = n.id => m = n
  BY DEF TypeOK, IdsIssuedOnce
<1> USE DEF sinkVars
<1>1. ASSUME NEW missed, QueueInitSync(localDoc, missed), UNCHANGED batch
      PROVE  IdsIssuedOnce'
  <2>. DEFINE k == IF "queue" \in missed THEN queue ELSE {}
              n == NewMsg("ClientInitSync", localDoc)
  <2>1. queue' = k \cup {n} /\ k \subseteq queue /\ n.id = counter
    BY <1>1 DEF QueueInitSync, NewMsg
  <2>2. counter' = counter + 1 /\ flying' \subseteq flying
    BY <1>1 DEF QueueInitSync
  <2>. HIDE DEF k, n
  <2>. QED  BY <1>0, <1>1, <2>1, <2>2, IssuedPush
<1>2. CASE DidInit
  BY <1>1, <1>2 DEF DidInit
<1>3. CASE MissedBroadcast
  BY <1>1, <1>3 DEF MissedBroadcast
<1>4. CASE ListenConnected
  BY <1>1, <1>4 DEF ListenConnected, StartInitSync
<1>5. CASE PushEdit
  <2>1. NewMsg(editKind, editOps).id = counter
    BY DEF NewMsg
  <2>. QED  BY <1>0, <1>5, <2>1, IssuedPush DEF PushEdit, PushMsg
<1>6. CASE EndEdit
  <2>1. CASE queue' \in Merged(queue)
    <3>1. /\ \A y \in queue' : \E m \in queue : m.id = y.id
          /\ \A y, z \in queue' : y.id = z.id => y = z
      BY <1>0, <2>1, MergedIds DEF SinkTypeOK
    <3>. QED  BY <1>0, <1>6, <3>1, IssuedKept DEF EndEdit
  <2>2. CASE UNCHANGED queue
    BY <1>0, <1>6, <2>2, IssuedKept DEF EndEdit
  <2>. QED  BY <1>6, <2>1, <2>2 DEF EndEdit
<1>7. CASE AnswerSyncStep1
  <2>. DEFINE n == NewMsg("ServerInitSync", (localDoc \cap Updates) \ replySv)
              msgs == queue \cup {n}
  <2>1. n.id = counter /\ n \in Message
    BY <1>0, NewMsgType DEF NewMsg, Kinds, TypeOK, Edits
  <2>2. /\ queue' \in Merged(msgs) /\ counter' = counter + 1
        /\ UNCHANGED <<flying, batch>>
    BY <1>7 DEF AnswerSyncStep1, QueueMsg
  <2>3. /\ \A m \in queue : m.id \in 0 .. (counter - 1)
        /\ \A m \in batch : m.id \in 0 .. (counter - 1)
        /\ flying \subseteq 0 .. (counter - 1) /\ counter \in Nat
    BY DEF IdsIssuedOnce, Ids, TypeOK, SinkTypeOK
  <2>. HIDE DEF n
  <2>4. /\ msgs \in SUBSET Message
        /\ \A m, x \in msgs : m.id = x.id => m = x
        /\ \A m \in msgs : m.id \in 0 .. counter
    BY <1>0, <2>1, <2>3 DEF SinkTypeOK
  <2>. HIDE DEF msgs
  <2>5. /\ \A y \in queue' : \E m \in msgs : m.id = y.id
        /\ \A y, z \in queue' : y.id = z.id => y = z
    BY <2>2, <2>4, MergedIds
  <2>6. /\ \A m \in queue' : m.id \in 0 .. counter
        /\ \A m \in batch' : m.id \in 0 .. counter
        /\ flying' \subseteq 0 .. counter
    BY <2>2, <2>3, <2>4, <2>5
  <2>7. counter' - 1 = counter
    BY <2>2, <2>3
  <2>. QED  BY <2>5, <2>6, <2>7, IssuedElements
<1>8. CASE RunnerStep
  BY <1>0, <1>8, IssuedKept DEF RunnerStep, ProcessPaused, ProcessNextMsg, Ids
<1>9. CASE Send \/ SendFails
  BY <1>0, <1>9, IssuedKept DEF Send, SendBatch, SendFails, SendBatchFails
<1>10. CASE IntervalTick
  BY <1>0, <1>10, IssuedKept DEF IntervalTick, Tick
<1>11. CASE \E a \in down : ReceiveAccepted(a)
  BY <1>0, <1>11, IssuedKept DEF ReceiveAccepted, AcceptResponse
<1>12. CASE \E a \in down : ReceiveRefused(a)
  BY <1>0, <1>12, IssuedKept DEF ReceiveRefused, RefuseResponse
<1>13. CASE UNCHANGED <<queue, flying, counter, batch>>
  BY <1>0, <1>13, IssuedKept
<1>. QED
  BY <1>2, <1>3, <1>4, <1>5, <1>6, <1>7, <1>8, <1>9, <1>10, <1>11, <1>12, <1>13,
     NextIsActionStep
  DEF ActionStep, BeginEdit, ReceiveCannotApply, DropSyncStep1, Disconnect, Reconnect,
      ListenLost, Pause, ListenConnectedBusy, Welcome, ServerInitSync, ServerLoadsLess,
      ServerCreatesAgain, ServerApply, ServerDrops, ServerCannotApply, ServerForgets,
      RemoveGroup, ServerCrash, Lose, vars

-----------------------------------------------------------------------------
(* The inductive invariant behind NoLostUpdate.                             *)

(* What is under way has an id that was issued, and is the message of that  *)
(* id in the queue, unless that one is gone.                                *)
SameMessage ==
  /\ Ids(up) \subseteq 0 .. (counter - 1)
  /\ {a.id : a \in down} \subseteq 0 .. (counter - 1)
  /\ \A x \in up \cup batch : \A m \in queue : x.id = m.id => x = m

(* A response carries the reply to an init sync exactly when it answers one *)
AnswerFits ==
  \A a \in down :
    /\ a.code \notin {"Retry", "Internal"}
    /\ \A m \in queue : a.id = m.id /\ a.code = "Success" =>
                           (a.reply <=> m.kind = "ClientInitSync")

(* The last event that waits is the state of the connection.                *)
LastEvent ==
  connEvents # <<>> => connEvents[Len(connEvents)] = IF conn = "up" THEN "Connected" ELSE "Lost"

PausedUntilConnected == paused => ReconnectPending

(* Response a would let message m go although it has brought u nowhere: a   *)
(* response to a sending before a crash, for instance.                      *)
Discredits(a, m, u) ==
  /\ a.id = m.id /\ a.code = "Success"
  /\ m.kind = "ClientInitSync" => u \in a.sv

(* NoLostUpdate, with a queued message that no response under way can take  *)
(* away.                                                                    *)
Solid(u) ==
  \/ ReconnectPending
  \/ editor = "opening"
  \/ editor = "queueing" /\ u \in editOps
  \/ observer = "payload" /\ u \notin replySv
  \/ \E m \in queue : Carries(m, u) /\ \A a \in down : ~Discredits(a, m, u)

AllSolid == \A u \in (localDoc \cap Updates) \ ServerDoc : Solid(u)

(* Merging keeps init syncs, keeps ids with their kinds and makes no        *)
(* awareness update.                                                        *)
LEMMA MergedShape ==
  ASSUME NEW msgs \in SUBSET Message, NEW q \in Merged(msgs),
         \A m, x \in msgs : m.id = x.id => m = x
  PROVE  /\ \A m \in msgs : m.kind = "ClientInitSync" => m \in q
         /\ \A y \in q : \E m \in msgs : m.id = y.id /\ m.kind = y.kind
<1>1. \A m \in msgs : m.kind = "ClientInitSync" => m \notin Mergeable(msgs)
  BY DEF Mergeable, UpdateSync
<1>2. \A m \in msgs : m \notin Mergeable(msgs) => m \in q
  BY DEF Merged, Absorb
<1>. QED  BY <1>1, <1>2, MergedIds

(* A client that is not subscribed is going to send an init sync: the       *)
(* connection will come up, the collab is being opened, or an init sync that *)
(* nobody has answered is queued.                                           *)
Rejoins ==
  \/ ReconnectPending \/ editor = "opening"
  \/ \E m \in queue : m.kind = "ClientInitSync" /\ \A a \in down : a.id # m.id

(* What the server knows of the client fits the group and the connection.   *)
SessionFits ==
  /\ session = "subscribed" => group
  /\ session = "none" => conn = "down"
  /\ session = "subscribed" \/ Rejoins

(* Every step of the server leaves the session fitting.                     *)
LEMMA ServerFits ==
  ASSUME SessionFits,
         \/ \E m \in up : \/ ServerInitSync(m) \/ ServerLoadsLess(m) \/ ServerCreatesAgain(m)
                          \/ ServerApply(m) \/ ServerCannotApply(m) \/ ServerDrops(m)
         \/ ServerForgets \/ RemoveGroup \/ ServerCrash
  PROVE  SessionFits'
<1> USE DEF SessionFits, Rejoins, ReconnectPending, sinkVars, clientVars, connVars, serverVars
<1>1. CASE \E m \in up : \/ ServerInitSync(m) \/ ServerLoadsLess(m) \/ ServerCreatesAgain(m)
                        \/ ServerApply(m) \/ ServerCannotApply(m)
  <2>1. session' = "subscribed" /\ group'
    <3>1. ASSUME NEW m, NEW loaded, Welcome(m, loaded)
          PROVE  session' = "subscribed" /\ group'
      BY <3>1 DEF Welcome, Subscribe
    <3>2. ASSUME NEW m, ServerApply(m) \/ ServerCannotApply(m)
          PROVE  session' = "subscribed" /\ group'
      BY <3>2 DEF ServerApply, ServerCannotApply, Subscribe
    <3> QED
      BY <1>1, <3>1, <3>2 DEF ServerInitSync, ServerLoadsLess, ServerCreatesAgain
  <2> QED BY <2>1
<1>2. CASE \E m \in up : ServerDrops(m)
  BY <1>2 DEF ServerDrops
<1>3. CASE ServerForgets \/ ServerCrash
  <2>1. session' = "none" /\ conn' = "down"
    BY <1>3 DEF ServerForgets, ServerCrash
  <2> QED BY <2>1
<1>4. CASE RemoveGroup
  BY <1>4 DEF RemoveGroup
<1> QED BY <1>1, <1>2, <1>3, <1>4

(* ... and so does every step of the client and the network.                *)
LEMMA SessionStep ==
  ASSUME "collabBusy" \notin Faults, TypeOK, IdsIssuedOnce, LastEvent, SessionFits,
         \A a \in down : a.id \in 0 .. (counter - 1), [Next]_vars
  PROVE  SessionFits'
<1> USE DEF SessionFits, Rejoins, ReconnectPending, sinkVars, clientVars, connVars, serverVars
<1>0. SinkTypeOK /\ \A m, x \in queue : m.id = x.id => m = x
  BY DEF TypeOK, IdsIssuedOnce
<1>1. ASSUME NEW missed, QueueInitSync(localDoc, missed),
             UNCHANGED <<down, session, group, conn>>
      PROVE  SessionFits'
  <2>. DEFINE new == NewMsg("ClientInitSync", localDoc)
  <2>1. new \in queue' /\ new.id = counter /\ new.kind = "ClientInitSync"
    BY <1>1 DEF QueueInitSync, NewMsg
  <2>2. \A a \in down' : a.id # counter
    BY <1>0, <1>1 DEF SinkTypeOK
  <2>. HIDE DEF new
  <2>. QED  BY <1>1, <2>1, <2>2
<1>2. CASE DidInit \/ MissedBroadcast \/ ListenConnected
  BY <1>1, <1>2 DEF DidInit, MissedBroadcast, ListenConnected, StartInitSync
<1>3. ASSUME NEW msgs \in SUBSET Message, queue \subseteq msgs, queue' \in Merged(msgs),
             \A m, x \in msgs : m.id = x.id => m = x,
             editor # "opening", UNCHANGED <<down, session, group, conn, connEvents>>
      PROVE  SessionFits'
  <2>1. \A m \in queue : m.kind = "ClientInitSync" => m \in queue'
    BY <1>3, MergedShape
  <2>. QED  BY <1>3, <2>1
<1>4. CASE EndEdit
  <2>1. CASE queue' \in Merged(queue)
    BY <1>0, <1>3, <1>4, <2>1 DEF EndEdit, SinkTypeOK
  <2>2. CASE UNCHANGED queue
    BY <1>4, <2>2 DEF EndEdit
  <2>. QED  BY <1>4, <2>1, <2>2 DEF EndEdit
<1>5. CASE AnswerSyncStep1
  <2>. DEFINE new == NewMsg("ServerInitSync", (localDoc \cap Updates) \ replySv)
              msgs == queue \cup {new}
  <2>1. new.id = counter /\ new \in Message
    BY <1>0, NewMsgType DEF NewMsg, Kinds, TypeOK, Edits
  <2>2. /\ queue' \in Merged(msgs) /\ editor = "idle"
        /\ UNCHANGED <<down, session, group, conn, connEvents>>
    BY <1>5 DEF AnswerSyncStep1, QueueMsg
  <2>3. \A m \in queue : m.id \in 0 .. (counter - 1)
    BY DEF IdsIssuedOnce, Ids
  <2>4. counter \notin 0 .. (counter - 1)
    BY <1>0 DEF SinkTypeOK
  <2>. HIDE DEF new
  <2>5. msgs \in SUBSET Message /\ \A m, x \in msgs : m.id = x.id => m = x
    BY <1>0, <2>1, <2>3, <2>4 DEF SinkTypeOK
  <2>. QED  BY <1>3, <2>2, <2>5
<1>6. CASE \E u \in Edits : BeginEdit(u)
  BY <1>6 DEF BeginEdit
<1>7. CASE PushEdit
  BY <1>7 DEF PushEdit, PushMsg
<1>8. CASE RunnerStep \/ Send \/ SendFails \/ IntervalTick
  BY <1>8 DEF RunnerStep, ProcessPaused, ProcessNextMsg, Send, SendBatch, SendFails,
              SendBatchFails, IntervalTick, Tick
<1>9. CASE \E a \in down : ReceiveAccepted(a)
  BY <1>9 DEF ReceiveAccepted, AcceptResponse, Acknowledges, Takes
<1>10. CASE \E a \in down : ReceiveRefused(a)
  BY <1>10 DEF ReceiveRefused, RefuseResponse, Takes
<1>11. CASE \E a \in down : ReceiveCannotApply(a)
  BY <1>11 DEF ReceiveCannotApply, Takes
<1>12. CASE DropSyncStep1 \/ ListenConnectedBusy
  BY <1>12 DEF DropSyncStep1, ListenConnectedBusy
<1>13. CASE Disconnect
  BY <1>13 DEF Disconnect
<1>14. CASE Reconnect
  BY <1>14 DEF Reconnect, TypeOK
<1>15. CASE ListenLost
  <2>1. ReconnectPending => ReconnectPending'
    BY <1>15, TailLast DEF ListenLost, LastEvent, TypeOK
  <2>. QED  BY <1>15, <2>1 DEF ListenLost
<1>16. CASE Lose
  BY <1>16 DEF Lose
<1>17. CASE UNCHANGED vars
  BY <1>17 DEF vars
<1>. QED
  BY <1>2, <1>4, <1>5, <1>6, <1>7, <1>8, <1>9, <1>10, <1>11, <1>12, <1>13, <1>14, <1>15,
     <1>16, <1>17, ServerFits, NextIsActionStep DEF ActionStep

SyncInv ==
  /\ TypeOK /\ IdsIssuedOnce /\ SameMessage /\ AnswerFits
  /\ LastEvent /\ PausedUntilConnected /\ SessionFits /\ AllSolid

(* Every step keeps the ids apart.                                          *)
LEMMA IdsStep ==
  ASSUME DisableMergeMessage, TypeOK, IdsIssuedOnce, SameMessage, [Next]_vars
  PROVE  IdsIssuedOnce' /\ SameMessage'
<1> USE DEF TypeOK, SinkTypeOK, IdsIssuedOnce, SameMessage, Ids, Message, Ack, sinkVars, connVars, clientVars, serverVars
<1>1. CASE DidInit
  BY <1>1 DEF DidInit, QueueInitSync, NewMsg
<1>2. ASSUME NEW u \in Edits, BeginEdit(u) PROVE IdsIssuedOnce' /\ SameMessage'
  BY <1>2 DEF BeginEdit
<1>3. CASE PushEdit
  BY <1>3 DEF PushEdit, PushMsg, NewMsg
<1>4. CASE EndEdit
  BY <1>4 DEF EndEdit, Merged
<1>5. CASE RunnerStep
  BY <1>5 DEF RunnerStep, ProcessPaused, ProcessNextMsg
<1>6. CASE Send
  BY <1>6 DEF Send, SendBatch
<1>7. CASE SendFails
  BY <1>7 DEF SendFails, SendBatchFails
<1>8. CASE IntervalTick
  <2>1. disruptions' \in 0 .. MaxDisruptions
    BY <1>8, DisruptType DEF IntervalTick, Fault
  <2> QED BY <1>8, <2>1 DEF IntervalTick, Tick
<1>9. ASSUME NEW a \in down, ReceiveAccepted(a) PROVE IdsIssuedOnce' /\ SameMessage'
  BY <1>9 DEF ReceiveAccepted, Takes, AcceptResponse
<1>10. ASSUME NEW a \in down, ReceiveRefused(a) PROVE IdsIssuedOnce' /\ SameMessage'
  BY <1>10 DEF ReceiveRefused, Takes, RefuseResponse
<1>11. ASSUME NEW a \in down, ReceiveCannotApply(a) PROVE IdsIssuedOnce' /\ SameMessage'
  BY <1>11 DEF ReceiveCannotApply, Takes
<1>12. CASE AnswerSyncStep1
  <2>1. PICK new : queue' = queue \cup {new} /\ new.id = counter
    <3> DEFINE new == NewMsg("ServerInitSync", (localDoc \cap Updates) \ replySv)
    <3>1. queue' = queue \cup {new}
      BY <1>12 DEF AnswerSyncStep1, QueueMsg, Merged
    <3>2. new.id = counter
      BY DEF NewMsg
    <3> QED BY <3>1, <3>2
  <2>2. counter' = counter + 1 /\ UNCHANGED <<flying, batch, up, down>>
    BY <1>12 DEF AnswerSyncStep1, QueueMsg
  <2> QED BY <2>1, <2>2
<1>13. CASE DropSyncStep1
  BY <1>13 DEF DropSyncStep1
<1>14. CASE MissedBroadcast
  BY <1>14 DEF MissedBroadcast, QueueInitSync, NewMsg
<1>15. CASE Disconnect
  BY <1>15 DEF Disconnect
<1>16. CASE Reconnect
  BY <1>16 DEF Reconnect
<1>17. CASE ListenLost
  BY <1>17 DEF ListenLost, Pause
<1>18. CASE ListenConnected
  <2>1. PICK missed \in SUBSET {"queue", "flying"} : QueueInitSync(localDoc, missed)
    BY <1>18 DEF ListenConnected, StartInitSync
  <2>2. PICK kept, new : /\ queue' = kept \cup {new}
                         /\ kept \subseteq queue
                         /\ new.id = counter
    <3> DEFINE k == IF "queue" \in missed THEN queue ELSE {}
               n == NewMsg("ClientInitSync", localDoc)
    <3>1. queue' = k \cup {n}
      BY <2>1 DEF QueueInitSync
    <3>2. k \subseteq queue
      OBVIOUS
    <3>3. n.id = counter
      BY DEF NewMsg
    <3> HIDE DEF k, n
    <3> QED BY <3>1, <3>2, <3>3
  <2>3. counter' = counter + 1 /\ flying' \subseteq flying /\ UNCHANGED <<batch, up, down>>
    BY <1>18, <2>1 DEF ListenConnected, QueueInitSync
  <2>4. /\ \A m \in queue : m.id \in Nat /\ m.id < counter
        /\ \A x \in up \cup batch : x.id \in Nat /\ x.id < counter
    OBVIOUS
  <2>5. IdsIssuedOnce'
    <3>1. \A m \in queue' : m.id \in 0 .. counter
      BY <2>2, <2>4
    <3>2. Ids(batch) \cup flying \subseteq 0 .. counter
      OBVIOUS
    <3>3. (Ids(queue) \cup Ids(batch) \cup flying)' \subseteq 0 .. counter
      <4>1. Ids(queue)' \subseteq 0 .. counter
        BY <3>1
      <4>2. Ids(batch)' = Ids(batch)
        BY <2>3
      <4> QED BY <2>3, <3>2, <4>1, <4>2
    <3>4. \A m, n \in queue' : m.id = n.id => m = n
      BY <2>2, <2>4
    <3>5. counter' - 1 = counter
      BY <2>3
    <3> QED BY <3>3, <3>4, <3>5
  <2>6. SameMessage'
    BY <2>2, <2>3, <2>4
  <2> QED BY <2>5, <2>6
<1>19. CASE ListenConnectedBusy
  BY <1>19 DEF ListenConnectedBusy
<1>20. ASSUME NEW m \in up,
              ServerInitSync(m) \/ ServerLoadsLess(m) \/ ServerCreatesAgain(m)
       PROVE  IdsIssuedOnce' /\ SameMessage'
  BY <1>20 DEF ServerInitSync, ServerLoadsLess, ServerCreatesAgain, Welcome, Arrives, Answer
<1>28. CASE ServerForgets
  BY <1>28 DEF ServerForgets
<1>21. ASSUME NEW m \in up, ServerApply(m) PROVE IdsIssuedOnce' /\ SameMessage'
  BY <1>21 DEF ServerApply, Arrives, Answer
<1>22. ASSUME NEW m \in up, ServerDrops(m) PROVE IdsIssuedOnce' /\ SameMessage'
  BY <1>22 DEF ServerDrops, Arrives
<1>23. ASSUME NEW m \in up, ServerCannotApply(m) PROVE IdsIssuedOnce' /\ SameMessage'
  BY <1>23 DEF ServerCannotApply, Answer
<1>24. CASE RemoveGroup
  BY <1>24 DEF RemoveGroup
<1>25. CASE ServerCrash
  BY <1>25 DEF ServerCrash
<1>26. CASE Lose
  BY <1>26 DEF Lose
<1>27. CASE UNCHANGED vars
  BY <1>27 DEF vars
<1> QED
  BY <1>1, <1>2, <1>3, <1>4, <1>5, <1>6, <1>7, <1>8, <1>9, <1>10, <1>11, <1>12, <1>13, <1>14, <1>15, <1>16, <1>17, <1>18, <1>19, <1>20, <1>21, <1>22, <1>23, <1>24, <1>25, <1>26, <1>27, <1>28, NextIsActionStep DEF ActionStep

(* Every step keeps the responses matched with the messages they answer.  *)
LEMMA AnswerStep ==
  ASSUME DisableMergeMessage, "retry" \notin Faults, TypeOK, IdsIssuedOnce, SameMessage, AnswerFits, [Next]_vars
  PROVE  AnswerFits'
<1> USE DEF TypeOK, SinkTypeOK, SameMessage, AnswerFits, Message, Ack, sinkVars, connVars, clientVars, serverVars
<1>1. CASE DidInit
  BY <1>1 DEF DidInit, QueueInitSync, NewMsg
<1>2. ASSUME NEW u \in Edits, BeginEdit(u) PROVE AnswerFits'
  BY <1>2 DEF BeginEdit
<1>3. CASE PushEdit
  BY <1>3 DEF PushEdit, PushMsg, NewMsg
<1>4. CASE EndEdit
  BY <1>4 DEF EndEdit, Merged
<1>5. CASE RunnerStep
  BY <1>5 DEF RunnerStep, ProcessPaused, ProcessNextMsg
<1>6. CASE Send
  BY <1>6 DEF Send, SendBatch
<1>7. CASE SendFails
  BY <1>7 DEF SendFails, SendBatchFails
<1>8. CASE IntervalTick
  <2>1. disruptions' \in 0 .. MaxDisruptions
    BY <1>8, DisruptType DEF IntervalTick, Fault
  <2> QED BY <1>8, <2>1 DEF IntervalTick, Tick
<1>9. ASSUME NEW a \in down, ReceiveAccepted(a) PROVE AnswerFits'
  BY <1>9 DEF ReceiveAccepted, Takes, AcceptResponse
<1>10. ASSUME NEW a \in down, ReceiveRefused(a) PROVE AnswerFits'
  BY <1>10 DEF ReceiveRefused, Takes, RefuseResponse
<1>11. ASSUME NEW a \in down, ReceiveCannotApply(a) PROVE AnswerFits'
  BY <1>11 DEF ReceiveCannotApply, Takes
<1>12. CASE AnswerSyncStep1
  <2>1. PICK new : queue' = queue \cup {new} /\ new.id = counter
    <3> DEFINE new == NewMsg("ServerInitSync", (localDoc \cap Updates) \ replySv)
    <3>1. queue' = queue \cup {new}
      BY <1>12 DEF AnswerSyncStep1, QueueMsg, Merged
    <3>2. new.id = counter
      BY DEF NewMsg
    <3> QED BY <3>1, <3>2
  <2>2. counter' = counter + 1 /\ UNCHANGED <<flying, batch, up, down>>
    BY <1>12 DEF AnswerSyncStep1, QueueMsg
  <2> QED BY <2>1, <2>2
<1>13. CASE DropSyncStep1
  BY <1>13 DEF DropSyncStep1
<1>14. CASE MissedBroadcast
  BY <1>14 DEF MissedBroadcast, QueueInitSync, NewMsg
<1>15. CASE Disconnect
  BY <1>15 DEF Disconnect
<1>16. CASE Reconnect
  BY <1>16 DEF Reconnect
<1>17. CASE ListenLost
  BY <1>17 DEF ListenLost, Pause
<1>18. CASE ListenConnected
  <2>1. PICK missed \in SUBSET {"queue", "flying"} : QueueInitSync(localDoc, missed)
    BY <1>18 DEF ListenConnected, StartInitSync
  <2> QED BY <1>18, <2>1 DEF ListenConnected, QueueInitSync, NewMsg
<1>19. CASE ListenConnectedBusy
  BY <1>19 DEF ListenConnectedBusy
<1>20. ASSUME NEW m \in up,
              ServerInitSync(m) \/ ServerLoadsLess(m) \/ ServerCreatesAgain(m)
       PROVE  AnswerFits'
  BY <1>20 DEF ServerInitSync, ServerLoadsLess, ServerCreatesAgain, Welcome, Arrives, Answer
<1>28. CASE ServerForgets
  BY <1>28 DEF ServerForgets
<1>21. ASSUME NEW m \in up, ServerApply(m) PROVE AnswerFits'
  BY <1>21 DEF ServerApply, Arrives, Answer
<1>22. ASSUME NEW m \in up, ServerDrops(m) PROVE AnswerFits'
  BY <1>22 DEF ServerDrops, Arrives
<1>23. ASSUME NEW m \in up, ServerCannotApply(m) PROVE AnswerFits'
  BY <1>23 DEF ServerCannotApply, Answer, Fault
<1>24. CASE RemoveGroup
  BY <1>24 DEF RemoveGroup
<1>25. CASE ServerCrash
  BY <1>25 DEF ServerCrash
<1>26. CASE Lose
  BY <1>26 DEF Lose
<1>27. CASE UNCHANGED vars
  BY <1>27 DEF vars
<1> QED
  BY <1>1, <1>2, <1>3, <1>4, <1>5, <1>6, <1>7, <1>8, <1>9, <1>10, <1>11, <1>12, <1>13, <1>14, <1>15, <1>16, <1>17, <1>18, <1>19, <1>20, <1>21, <1>22, <1>23, <1>24, <1>25, <1>26, <1>27, <1>28, NextIsActionStep DEF ActionStep

(* Every step keeps the listener ahead of the connection.                 *)
LEMMA EventStep ==
  ASSUME "collabBusy" \notin Faults, TypeOK, LastEvent, PausedUntilConnected, [Next]_vars
  PROVE  LastEvent' /\ PausedUntilConnected'
<1> USE DEF TypeOK, LastEvent, PausedUntilConnected, ReconnectPending, sinkVars, connVars
<1>1. CASE DidInit
  BY <1>1, TailLast DEF DidInit, QueueInitSync, NewMsg
<1>2. ASSUME NEW u \in Edits, BeginEdit(u) PROVE LastEvent' /\ PausedUntilConnected'
  BY <1>2, TailLast DEF BeginEdit
<1>3. CASE PushEdit
  BY <1>3, TailLast DEF PushEdit, PushMsg, NewMsg
<1>4. CASE EndEdit
  BY <1>4, TailLast DEF EndEdit, Merged
<1>5. CASE RunnerStep
  BY <1>5, TailLast DEF RunnerStep, ProcessPaused, ProcessNextMsg
<1>6. CASE Send
  BY <1>6, TailLast DEF Send, SendBatch
<1>7. CASE SendFails
  BY <1>7, TailLast DEF SendFails, SendBatchFails
<1>8. CASE IntervalTick
  BY <1>8, TailLast DEF IntervalTick, Tick
<1>9. ASSUME NEW a \in down, ReceiveAccepted(a) PROVE LastEvent' /\ PausedUntilConnected'
  BY <1>9, TailLast DEF ReceiveAccepted, Takes, AcceptResponse
<1>10. ASSUME NEW a \in down, ReceiveRefused(a) PROVE LastEvent' /\ PausedUntilConnected'
  BY <1>10, TailLast DEF ReceiveRefused, Takes, RefuseResponse
<1>11. ASSUME NEW a \in down, ReceiveCannotApply(a) PROVE LastEvent' /\ PausedUntilConnected'
  BY <1>11, TailLast DEF ReceiveCannotApply, Takes
<1>12. CASE AnswerSyncStep1
  BY <1>12, TailLast DEF AnswerSyncStep1, QueueMsg, Merged, NewMsg
<1>13. CASE DropSyncStep1
  BY <1>13, TailLast DEF DropSyncStep1
<1>14. CASE MissedBroadcast
  BY <1>14, TailLast DEF MissedBroadcast, QueueInitSync, NewMsg
<1>15. CASE Disconnect
  BY <1>15, TailLast DEF Disconnect
<1>16. CASE Reconnect
  BY <1>16, TailLast DEF Reconnect
<1>17. CASE ListenLost
  BY <1>17, TailLast DEF ListenLost, Pause
<1>18. CASE ListenConnected
  BY <1>18, TailLast DEF ListenConnected, StartInitSync, QueueInitSync, NewMsg, Resume
<1>19. CASE ListenConnectedBusy
  BY <1>19, TailLast DEF ListenConnectedBusy
<1>20. ASSUME NEW m \in up,
              ServerInitSync(m) \/ ServerLoadsLess(m) \/ ServerCreatesAgain(m)
       PROVE  LastEvent' /\ PausedUntilConnected'
  <2>1. ASSUME NEW loaded, Welcome(m, loaded) PROVE LastEvent' /\ PausedUntilConnected'
    BY <2>1, TailLast DEF Welcome
  <2> QED BY <1>20, <2>1 DEF ServerInitSync, ServerLoadsLess, ServerCreatesAgain
<1>28. CASE ServerForgets
  BY <1>28 DEF ServerForgets
<1>21. ASSUME NEW m \in up, ServerApply(m) PROVE LastEvent' /\ PausedUntilConnected'
  BY <1>21, TailLast DEF ServerApply, Arrives, Answer
<1>22. ASSUME NEW m \in up, ServerDrops(m) PROVE LastEvent' /\ PausedUntilConnected'
  BY <1>22, TailLast DEF ServerDrops, Arrives
<1>23. ASSUME NEW m \in up, ServerCannotApply(m) PROVE LastEvent' /\ PausedUntilConnected'
  BY <1>23, TailLast DEF ServerCannotApply, Answer
<1>24. CASE RemoveGroup
  BY <1>24, TailLast DEF RemoveGroup
<1>25. CASE ServerCrash
  BY <1>25, TailLast DEF ServerCrash
<1>26. CASE Lose
  BY <1>26, TailLast DEF Lose
<1>27. CASE UNCHANGED vars
  BY <1>27 DEF vars
<1> QED
  BY <1>1, <1>2, <1>3, <1>4, <1>5, <1>6, <1>7, <1>8, <1>9, <1>10, <1>11, <1>12, <1>13, <1>14, <1>15, <1>16, <1>17, <1>18, <1>19, <1>20, <1>21, <1>22, <1>23, <1>24, <1>25, <1>26, <1>27, <1>28, NextIsActionStep DEF ActionStep

(* No response under way can take away a message that is being pushed.      *)
LEMMA FreshIsSolid ==
  ASSUME TypeOK, SameMessage, NEW m, m.id = counter
  PROVE  \A u : \A a \in down : ~Discredits(a, m, u)
<1>1. \A a \in down : a.id \in 0 .. (counter - 1)
  BY DEF SameMessage
<1>2. counter \notin 0 .. (counter - 1)
  BY DEF TypeOK, SinkTypeOK
<1> QED BY <1>1, <1>2 DEF Discredits

(* An init sync in the queue makes every update solid.                      *)
LEMMA InitSyncSolid ==
  ASSUME SyncInv, NEW missed, QueueInitSync(localDoc, missed), UNCHANGED down
  PROVE  AllSolid'
<1> DEFINE new == NewMsg("ClientInitSync", localDoc)
<1>1. new \in queue'
  BY DEF QueueInitSync
<1>2. new.id = counter /\ new.kind = "ClientInitSync"
  BY DEF NewMsg
<1>3. \A u : \A a \in down' : ~Discredits(a, new, u)
  BY <1>2, FreshIsSolid DEF SyncInv
<1>4. \A u : Carries(new, u)
  BY <1>2 DEF Carries
<1> HIDE DEF new
<1> QED BY <1>1, <1>3, <1>4 DEF AllSolid, Solid

(* Every step keeps every update solid.                                    *)
LEMMA SolidStep ==
  ASSUME DisableMergeMessage, "collabBusy" \notin Faults, "retry" \notin Faults,
         "secondRunner" \notin Faults, SyncInv, [Next]_vars
  PROVE  AllSolid'
<1> USE DEF SyncInv, TypeOK, SinkTypeOK, IdsIssuedOnce, SameMessage, AnswerFits, LastEvent, AllSolid, Solid, Discredits, Carries, ReconnectPending, ServerDoc, Ids, Message, Ack, sinkVars, connVars, clientVars, serverVars
<1>1. CASE DidInit
  BY <1>1, InitSyncSolid DEF DidInit
<1>2. ASSUME NEW u \in Edits, BeginEdit(u) PROVE AllSolid'
  BY <1>2, TailLast DEF BeginEdit
<1>3. CASE PushEdit
  <2> DEFINE new == NewMsg(editKind, editOps)
  <2>1. /\ queue' = queue \cup {new}
        /\ UNCHANGED <<localDoc, editOps, observer, replySv, conn, connEvents, group,
                       doc, stored, down>>
    BY <1>3 DEF PushEdit, PushMsg
  <2>2. editor = "queueing"
    BY <1>3 DEF PushEdit
  <2>3. new.id = counter /\ new.ops = editOps
    BY DEF NewMsg
  <2>4. \A u : \A a \in down : ~Discredits(a, new, u)
    BY <2>3, FreshIsSolid
  <2> HIDE DEF new
  <2>5. ASSUME NEW u \in (localDoc' \cap Updates) \ ServerDoc'
        PROVE  Solid(u)'
    <3>1. u \in (localDoc \cap Updates) \ ServerDoc /\ Solid(u)
      BY <2>1
    <3>2. CASE u \in editOps
      <4>1. new \in queue' /\ Carries(new, u) /\ \A a \in down' : ~Discredits(a, new, u)
        BY <3>2, <2>1, <2>3, <2>4
      <4> QED BY <4>1
    <3>3. CASE u \notin editOps
      BY <2>1, <2>2, <3>1, <3>3
    <3> QED BY <3>2, <3>3
  <2> QED BY <2>5
<1>4. CASE EndEdit
  BY <1>4, TailLast DEF EndEdit, Merged
<1>5. CASE RunnerStep
  BY <1>5, TailLast DEF RunnerStep, ProcessPaused, ProcessNextMsg
<1>6. CASE Send
  BY <1>6, TailLast DEF Send, SendBatch
<1>7. CASE SendFails
  BY <1>7, TailLast DEF SendFails, SendBatchFails
<1>8. CASE IntervalTick
  BY <1>8, TailLast DEF IntervalTick, Tick
<1>9. ASSUME NEW a \in down, ReceiveAccepted(a) PROVE AllSolid'
  <2>1. PICK top \in queue : AcceptResponse(a.id, top)
    BY <1>9 DEF ReceiveAccepted
  <2>2. /\ a.id = top.id /\ queue' = queue \ {top}
        /\ down' \subseteq down /\ a \in Ack
        /\ observer = "receiving"
        /\ observer' = (IF a.reply THEN "payload" ELSE "receiving") /\ replySv' = a.sv
        /\ UNCHANGED <<localDoc, editor, editOps, conn, connEvents, group, doc, stored>>
    BY <1>9, <2>1 DEF ReceiveAccepted, AcceptResponse, Acknowledges, Takes
  <2>3. a.code = "Success"
    BY <1>9 DEF ReceiveAccepted, AckCodes
  <2>4. a.reply <=> top.kind = "ClientInitSync"
    BY <2>2, <2>3
  <2>5. ASSUME NEW u \in (localDoc' \cap Updates) \ ServerDoc'
        PROVE  Solid(u)'
    <3>1. u \in (localDoc \cap Updates) \ ServerDoc /\ Solid(u)
      BY <2>2
    <3>2. ASSUME NEW m \in queue, Carries(m, u), \A b \in down : ~Discredits(b, m, u)
          PROVE  Solid(u)'
      <4>1. CASE m = top
        <5>1. top.kind = "ClientInitSync" /\ u \notin a.sv
          BY <2>2, <2>3, <3>2, <4>1
        <5> QED BY <2>2, <2>4, <5>1
      <4>2. CASE m # top
        BY <2>2, <3>2, <4>2
      <4> QED BY <4>1, <4>2
    <3> QED BY <2>2, <3>1, <3>2
  <2> QED BY <2>5
<1>10. ASSUME NEW a \in down, ReceiveRefused(a) PROVE AllSolid'
  BY <1>10, TailLast DEF ReceiveRefused, Takes, RefuseResponse
<1>11. ASSUME NEW a \in down, ReceiveCannotApply(a) PROVE AllSolid'
  BY <1>11, TailLast DEF ReceiveCannotApply, Takes
<1>12. CASE AnswerSyncStep1
  <2> DEFINE new == NewMsg("ServerInitSync", (localDoc \cap Updates) \ replySv)
  <2>1. queue' = queue \cup {new}
    BY <1>12 DEF AnswerSyncStep1, QueueMsg, Merged
  <2>2. /\ editor = "idle"
        /\ UNCHANGED <<localDoc, editor, editOps, conn, connEvents, group, doc, stored, down>>
    BY <1>12 DEF AnswerSyncStep1
  <2>3. new.id = counter /\ new.ops = (localDoc \cap Updates) \ replySv
    BY DEF NewMsg
  <2>4. \A u : \A a \in down : ~Discredits(a, new, u)
    BY <2>3, FreshIsSolid
  <2> HIDE DEF new
  <2>5. ASSUME NEW u \in (localDoc' \cap Updates) \ ServerDoc'
        PROVE  Solid(u)'
    <3>1. u \in (localDoc \cap Updates) \ ServerDoc /\ Solid(u)
      BY <2>2
    <3>2. CASE u \notin replySv
      <4>1. new \in queue' /\ Carries(new, u) /\ \A a \in down' : ~Discredits(a, new, u)
        BY <3>1, <3>2, <2>1, <2>2, <2>3, <2>4
      <4> QED BY <4>1
    <3>3. CASE u \in replySv
      BY <2>1, <2>2, <3>1, <3>3
    <3> QED BY <3>2, <3>3
  <2> QED BY <2>5
<1>13. CASE DropSyncStep1
  BY <1>13, TailLast DEF DropSyncStep1
<1>14. CASE MissedBroadcast
  BY <1>14, InitSyncSolid DEF MissedBroadcast
<1>15. CASE Disconnect
  BY <1>15, TailLast DEF Disconnect
<1>16. CASE Reconnect
  BY <1>16, TailLast DEF Reconnect
<1>17. CASE ListenLost
  BY <1>17, TailLast DEF ListenLost, Pause
<1>18. CASE ListenConnected
  BY <1>18, InitSyncSolid DEF ListenConnected, StartInitSync
<1>19. CASE ListenConnectedBusy
  BY <1>19, TailLast DEF ListenConnectedBusy
<1>20. ASSUME NEW m \in up, ServerInitSync(m) PROVE AllSolid'
  BY <1>20, TailLast DEF ServerInitSync, Welcome, Arrives, Answer
<1>28. ASSUME NEW m \in up, ServerLoadsLess(m) PROVE AllSolid'
  <2>1. PICK loaded \in versions : Welcome(m, loaded)
    BY <1>28 DEF ServerLoadsLess
  <2>2. /\ ServerDoc' = loaded /\ UNCHANGED <<queue, localDoc, editor, conn, connEvents>>
        /\ down' = down \cup {[id |-> m.id, code |-> "Success", reply |-> TRUE, sv |-> loaded]}
    BY <2>1 DEF Welcome, Answer
  <2>3. Rejoins
    BY <1>28 DEF ServerLoadsLess, SessionFits
  <2>4. ASSUME NEW u \in (localDoc' \cap Updates) \ ServerDoc' PROVE Solid(u)'
    <3>1. CASE \E n \in queue : n.kind = "ClientInitSync" /\ \A a \in down : a.id # n.id
      <4>1. PICK n \in queue : n.kind = "ClientInitSync" /\ \A a \in down : a.id # n.id
        BY <3>1
      <4>2. Carries(n, u) /\ \A a \in down' : ~Discredits(a, n, u)
        BY <2>2, <2>4, <4>1
      <4>. QED  BY <2>2, <4>1, <4>2
    <3>. QED  BY <2>2, <2>3, <3>1 DEF Rejoins
  <2>. QED  BY <2>4
<1>29. ASSUME NEW m \in up, ServerCreatesAgain(m) PROVE AllSolid'
  BY <1>29 DEF ServerCreatesAgain, Fault
<1>30. CASE ServerForgets
  BY <1>30 DEF ServerForgets
<1>21. ASSUME NEW m \in up, ServerApply(m) PROVE AllSolid'
  BY <1>21, TailLast DEF ServerApply, Arrives, Answer
<1>22. ASSUME NEW m \in up, ServerDrops(m) PROVE AllSolid'
  BY <1>22, TailLast DEF ServerDrops, Arrives
<1>23. ASSUME NEW m \in up, ServerCannotApply(m) PROVE AllSolid'
  BY <1>23, TailLast DEF ServerCannotApply, Answer
<1>24. CASE RemoveGroup
  BY <1>24 DEF RemoveGroup, SessionFits, Rejoins
<1>25. CASE ServerCrash
  BY <1>25, TailLast DEF ServerCrash
<1>26. CASE Lose
  BY <1>26, TailLast DEF Lose
<1>27. CASE UNCHANGED vars
  BY <1>27 DEF vars
<1> QED
  BY <1>1, <1>2, <1>3, <1>4, <1>5, <1>6, <1>7, <1>8, <1>9, <1>10, <1>11, <1>12, <1>13, <1>14, <1>15, <1>16, <1>17, <1>18, <1>19, <1>20, <1>21, <1>22, <1>23, <1>24, <1>25, <1>26, <1>27, <1>28, <1>29, <1>30, NextIsActionStep DEF ActionStep

(* The inductive invariant holds initially.                                 *)
LEMMA SyncInvInit == Init => SyncInv
<1> SUFFICES ASSUME Init PROVE SyncInv
  OBVIOUS
<1>1. TypeOK
  BY TypeInit
<1>2. IdsIssuedOnce /\ SameMessage /\ AnswerFits
  BY DEF Init, SinkInit, IdsIssuedOnce, SameMessage, AnswerFits, Ids
<1>3. LastEvent /\ PausedUntilConnected /\ AllSolid
  BY DEF Init, SinkInit, LastEvent, PausedUntilConnected, AllSolid, Solid
<1>4. SessionFits
  BY DEF Init, SessionFits, Rejoins
<1> QED BY <1>1, <1>2, <1>3, <1>4 DEF SyncInv

(* Every step preserves the inductive invariant.                            *)
LEMMA SyncInvStep ==
  ASSUME DisableMergeMessage, "collabBusy" \notin Faults, "retry" \notin Faults,
         "secondRunner" \notin Faults, SyncInv, [Next]_vars
  PROVE  SyncInv'
<1>1. TypeOK'
  BY TypeStep DEF SyncInv
<1>2. IdsIssuedOnce' /\ SameMessage'
  BY IdsStep DEF SyncInv
<1>3. AnswerFits'
  BY AnswerStep DEF SyncInv
<1>4. LastEvent' /\ PausedUntilConnected'
  BY EventStep DEF SyncInv
<1>5. AllSolid'
  BY SolidStep
<1>6. SessionFits'
  <2>1. \A a \in down : a.id \in 0 .. (counter - 1)
    BY DEF SyncInv, SameMessage
  <2> QED BY <2>1, SessionStep DEF SyncInv
<1> QED BY <1>1, <1>2, <1>3, <1>4, <1>5, <1>6 DEF SyncInv

(* The inductive invariant gives the three properties.                      *)
LEMMA SyncInvImplies == SyncInv => IdsIssuedOnce /\ NoLostUpdate /\ ConnectedResumes
<1>1. SyncInv => IdsIssuedOnce
  BY DEF SyncInv
<1>2. SyncInv => NoLostUpdate
  BY DEF SyncInv, AllSolid, Solid, NoLostUpdate
<1>3. SyncInv => ConnectedResumes
  BY DEF SyncInv, PausedUntilConnected, ReconnectPending, ConnectedResumes
<1> QED BY <1>1, <1>2, <1>3

(* A sink that does not merge, used by threads that find the collab lock    *)
(* free, against a server that never answers Retry and has one runner for   *)
(* the object, forgets no update: whatever is lost, repeated, reordered or  *)
(* refused, however often the connection drops and the server crashes or    *)
(* drops the group, whatever old or empty document a group starts with, and *)
(* even if clear() misses its locks.                                        *)
THEOREM NothingForgotten ==
  ASSUME DisableMergeMessage, "collabBusy" \notin Faults, "retry" \notin Faults,
         "secondRunner" \notin Faults
  PROVE  Spec => []NoLostUpdate
<1>1. SyncInv /\ [Next]_vars => SyncInv'
  BY SyncInvStep
<1> QED BY <1>1, SyncInvInit, SyncInvImplies, PTL DEF Spec

(* A sink whose listener finds the collab lock free is never left paused on *)
(* a live connection, merging or not and whatever else goes wrong: the last *)
(* connection state the listener has handled is the state of the connection.*)
THEOREM NotLeftPaused ==
  ASSUME "collabBusy" \notin Faults
  PROVE  Spec => []ConnectedResumes
<1> DEFINE Inv == TypeOK /\ LastEvent /\ PausedUntilConnected
<1>1. Init => Inv
  BY TypeInit DEF Init, SinkInit, LastEvent, PausedUntilConnected
<1>2. Inv /\ [Next]_vars => Inv'
  BY TypeStep, EventStep
<1>3. Inv => ConnectedResumes
  BY DEF PausedUntilConnected, ReconnectPending, ConnectedResumes
<1> QED BY <1>1, <1>2, <1>3, PTL DEF Spec

(* Message ids are issued once, whatever fails and whether or not messages  *)
(* are merged: no interleaving of queue_msg, of the clear() of an init sync, *)
(* of merge and of resends puts two messages with one id into the queue, so *)
(* that validate_response compares an id that names one message.            *)
THEOREM IdsStayUnique == Spec => []IdsIssuedOnce
<1>1. Init => TypeOK /\ IdsIssuedOnce
  BY TypeInit DEF Init, SinkInit, IdsIssuedOnce, Ids
<1>2. TypeOK /\ IdsIssuedOnce /\ [Next]_vars => (TypeOK /\ IdsIssuedOnce)'
  BY TypeStep, IssuedStep
<1> QED BY <1>1, <1>2, PTL DEF Spec

-----------------------------------------------------------------------------
(* With merging, on a network that loses nothing.                           *)

(* A nonempty set of naturals has a least element.                          *)
LEMMA NatMin ==
  ASSUME NEW T \in SUBSET Nat, T # {}
  PROVE  \E x \in T : \A y \in T : x <= y
<1>. DEFINE L == OpToRel(<, Nat)
<1>1. IsWellFoundedOn(L, Nat)
  BY NatLessThanWellFounded
<1>2. \A x, y \in Nat : y < x => <<y, x>> \in L
  BY DEF OpToRel
<1>. HIDE DEF L
<1>3. PICK x \in T : \A y \in T : ~ (<<y, x>> \in L)
  BY <1>1, WFMin
<1>4. \A y \in T : ~(y < x) /\ y \in Nat /\ x \in Nat
  BY <1>2, <1>3
<1>. QED  BY <1>4

(* ... and a greatest one if it is bounded.                                 *)
LEMMA NatMax ==
  ASSUME NEW T \in SUBSET Nat, T # {}, NEW n \in Nat, \A y \in T : y <= n
  PROVE  \E x \in T : \A y \in T : y <= x
<1>. DEFINE U == {k \in 0 .. n : \E y \in T : y = n - k}
<1>1. \A y \in T : n - y \in U
  OBVIOUS
<1>2. \A k \in U : n - k \in T
  OBVIOUS
<1>3. U \in SUBSET Nat
  OBVIOUS
<1>. HIDE DEF U
<1>4. PICK k \in U : \A j \in U : k <= j
  BY <1>1, <1>3, NatMin
<1>5. n - k \in T /\ k \in Nat
  BY <1>2, <1>3
<1>6. \A y \in T : y \in Nat /\ k <= n - y
  BY <1>1, <1>4
<1>. QED  BY <1>5, <1>6

(* What merge keeps: in a queue without awareness updates, an edit of a     *)
(* message that is not flying is afterwards in a message that is not        *)
(* flying.  The head that absorbs the message is the last one at or before  *)
(* it; it is not flying because then the next message would be a head.      *)
LEMMA MergedKeeps ==
  ASSUME NEW msgs \in SUBSET Message, NEW q \in Merged(msgs),
         NEW n \in Nat, \A m \in msgs : m.id <= n,
         \A m, x \in msgs : m.id = x.id => m = x,
         \A m \in msgs : m.kind # "Awareness",
         NEW x \in msgs, x.kind # "ClientInitSync", x.id \notin flying, NEW u \in x.ops
  PROVE  \E y \in q : y.kind # "ClientInitSync" /\ u \in y.ops /\ y.id \notin flying
<1>1. CASE DisableMergeMessage
  BY <1>1 DEF Merged
<1>2. CASE ~DisableMergeMessage /\ x \notin Mergeable(msgs)
  BY <1>2 DEF Merged, Absorb
<1>3. CASE ~DisableMergeMessage /\ x \in Mergeable(msgs)
  <2>. DEFINE M == Mergeable(msgs)
  <2>1. PICK H \in SUBSET M : IsHeads(msgs, H) /\ q = Absorb(msgs, H)
    BY <1>3 DEF Merged
  <2>2. \A m \in msgs : m \in Message /\ m.id \in Nat
    BY DEF Message
  <2>3. M \subseteq msgs /\ \A m \in M : m.kind = "Update"
    BY DEF Mergeable, UpdateSync
  <2>4. x \in M
    BY <1>3
  <2>. HIDE DEF M
  <2>5. PICK m0 \in M : \A m \in M : m0.id <= m.id
    <3>. DEFINE T == {m.id : m \in M}
    <3>1. T \in SUBSET Nat /\ x.id \in T
      BY <2>2, <2>3, <2>4
    <3>2. PICK i \in T : \A j \in T : i <= j
      <4>. HIDE DEF T
      <4>. QED  BY <3>1, NatMin
    <3>. QED  BY <3>2
  <2>6. m0 \in H /\ m0.id <= x.id
    <3>1. ~FollowsMergeable(msgs, m0)
      BY <2>2, <2>3, <2>5 DEF FollowsMergeable, M
    <3>. QED  BY <2>1, <2>4, <2>5, <3>1 DEF IsHeads, M
  <2>7. PICK h \in H : h.id <= x.id /\ \A k \in H : k.id <= x.id => k.id <= h.id
    <3>. DEFINE T == {k.id : k \in {k \in H : k.id <= x.id}}
    <3>1. T \in SUBSET Nat /\ m0.id \in T /\ \A i \in T : i <= x.id
      BY <2>1, <2>2, <2>3, <2>6
    <3>2. PICK i \in T : \A j \in T : j <= i
      <4>. HIDE DEF T
      <4>. QED  BY <2>2, <3>1, NatMax
    <3>. QED  BY <3>2
  <2>8. h \in M /\ h \in Message /\ h.id \in Nat /\ x.id \in Nat /\ h.kind = "Update"
    BY <2>1, <2>2, <2>3, <2>7
  <2>9. NextHead(msgs, H, h) > x.id
    <3>. DEFINE later == {k.id : k \in {k \in H : k.id > h.id}}
    <3>1. CASE later = {}
      <4>1. PICK i \in Ids(msgs) : \A j \in Ids(msgs) : j <= i
        <5>1. Ids(msgs) \in SUBSET Nat /\ Ids(msgs) # {} /\ \A j \in Ids(msgs) : j <= n
          BY <2>2 DEF Ids
        <5>. QED  BY <5>1, NatMax
      <4>. DEFINE c == CHOOSE i_1 \in Ids(msgs) : \A j \in Ids(msgs) : j <= i_1
      <4>2. c \in Ids(msgs) /\ \A j \in Ids(msgs) : j <= c
        BY <4>1
      <4>3. c \in Nat /\ x.id <= c
        BY <2>2, <4>2 DEF Ids
      <4>4. NextHead(msgs, H, h) = 1 + c
        BY <3>1 DEF NextHead
      <4>. QED  BY <2>8, <4>3, <4>4
    <3>2. CASE later # {}
      <4>1. later \in SUBSET Nat
        BY <2>1, <2>2, <2>3
      <4>2. \A i \in later : i > x.id
        BY <2>1, <2>2, <2>3, <2>7, <2>8
      <4>. DEFINE c == CHOOSE i \in later : \A j \in later : i <= j
      <4>3. NextHead(msgs, H, h) = c
        BY <3>2 DEF NextHead
      <4>. HIDE DEF later
      <4>4. c \in later
        BY <3>2, <4>1, NatMin
      <4>. QED  BY <4>2, <4>3, <4>4
    <3>. QED  BY <3>1, <3>2
  <2>. DEFINE y == [h EXCEPT !.ops = Payload(msgs, h, NextHead(msgs, H, h))]
  <2>10. y \in q /\ y.id = h.id /\ y.kind = "Update"
    BY <2>1, <2>7, <2>8 DEF Absorb, Message
  <2>11. u \in y.ops
    <3>1. y.ops = Payload(msgs, h, NextHead(msgs, H, h))
      BY <2>8 DEF Message
    <3>2. CASE h.id = x.id
      <4>1. h = x
        BY <2>3, <2>4, <2>8, <3>2
      <4>. QED  BY <3>1, <4>1 DEF Payload
    <3>3. CASE h.id # x.id
      <4>1. h.id < x.id
        BY <2>7, <2>8, <3>3
      <4>. QED  BY <2>3, <2>4, <2>8, <2>9, <3>1, <4>1 DEF Payload, M
    <3>. QED  BY <3>2, <3>3
  <2>12. h.id \notin flying
    <3>1. CASE h.id = x.id
      BY <3>1
    <3>2. CASE h.id # x.id
      <4>1. h.id < x.id
        BY <2>7, <2>8, <3>2
      <4>2. PICK s \in M : h.id < s.id /\ \A m \in M : h.id < m.id => s.id <= m.id
        <5>. DEFINE T == {m.id : m \in {m \in M : h.id < m.id}}
        <5>1. T \in SUBSET Nat /\ x.id \in T
          BY <2>2, <2>3, <2>4, <4>1
        <5>2. PICK i \in T : \A j \in T : i <= j
          <6>. HIDE DEF T
          <6>. QED  BY <5>1, NatMin
        <5>. QED  BY <5>2
      <4>3. s.id <= x.id /\ s.id \in Nat
        BY <2>2, <2>3, <2>4, <4>1, <4>2
      <4>4. s \notin H
        BY <2>7, <2>8, <4>2, <4>3
      <4>5. FollowsMergeable(msgs, s)
        BY <2>1, <4>2, <4>4 DEF IsHeads, M
      <4>6. PICK p \in M : /\ p.id < s.id /\ p.id \notin flying
                            /\ \A k \in M : ~(p.id < k.id /\ k.id < s.id)
        BY <4>5 DEF FollowsMergeable, M
      <4>7. p.id = h.id
        BY <2>2, <2>3, <2>8, <4>2, <4>3, <4>6
      <4>. QED  BY <4>6, <4>7
    <3>. QED  BY <3>1, <3>2
  <2>. QED  BY <2>10, <2>11, <2>12
<1>. QED  BY <1>1, <1>2, <1>3

(* Which faults lose nothing, for the sink: a repeated message, a response  *)
(* that comes after the interval, a lock of the sink that is not free, and  *)
(* a group that starts with less than what is stored.                       *)
Harmless == {"duplication", "sinkBusy", "load", "slow"}

(* No message is an awareness update: merge drops what follows one.         *)
NoAwareness ==
  editKind = "Update" /\ \A m \in queue \cup batch \cup up : m.kind # "Awareness"

(* The runner holds a batch only while it sends it.                         *)
BatchSent == runner = "waiting" => batch = {}

(* What is under way has an id that was issued and, if the queue still has  *)
(* that id, the kind of the message there: its payload may differ.          *)
SameKind ==
  /\ \A x \in up : x.id \in 0 .. (counter - 1)
  /\ \A a \in down : a.id \in 0 .. (counter - 1) /\ a.code = "Success"
  /\ \A x \in up \cup batch : \A m \in queue : x.id = m.id => x.kind = m.kind
  /\ \A a \in down : \A m \in queue :
       a.id = m.id => (a.reply <=> m.kind = "ClientInitSync")

(* u is on its way to a group.                                              *)
Sent(u) == group /\ \E x \in batch \cup up : x.kind # "ClientInitSync" /\ u \in x.ops

(* u is in a message that will be sent as it is now, because its id is not  *)
(* flying and the sink refuses a response to an id that is not.             *)
Queued(u) ==
  \E m \in queue : m.kind # "ClientInitSync" /\ u \in m.ops /\ m.id \notin flying

(* The reply to a queued init sync will show that the server has not got u. *)
Asked(u) ==
  \E m \in queue : m.kind = "ClientInitSync" /\ \A a \in down : ~(a.id = m.id /\ u \in a.sv)

Safe(u) ==
  \/ ReconnectPending
  \/ editor = "opening"
  \/ editor = "queueing" /\ u \in editOps
  \/ observer = "payload" /\ u \notin replySv
  \/ Sent(u) \/ Queued(u) \/ Asked(u)

AllSafe == \A u \in (localDoc \cap Updates) \ ServerDoc : Safe(u)

(* The inductive invariant behind NothingVanishes.                          *)
MergeInv ==
  /\ TypeOK /\ IdsIssuedOnce /\ LastEvent /\ PausedUntilConnected
  /\ NoAwareness /\ BatchSent /\ SameKind /\ SessionFits /\ AllSafe

(* An init sync that joins the queue makes everything safe.                 *)
LEMMA InitSyncAsks ==
  ASSUME MergeInv, NEW missed, QueueInitSync(localDoc, missed),
         UNCHANGED <<batch, up, down, editKind, runner>>
  PROVE  NoAwareness' /\ BatchSent' /\ SameKind' /\ AllSafe'
<1>. DEFINE new == NewMsg("ClientInitSync", localDoc)
            kept == IF "queue" \in missed THEN queue ELSE {}
<1>1. /\ queue' = kept \cup {new} /\ kept \subseteq queue
      /\ counter' = counter + 1
  BY DEF QueueInitSync
<1>2. new.id = counter /\ new.kind = "ClientInitSync"
  BY DEF NewMsg
<1>. HIDE DEF new, kept
<1>3. /\ counter \in Nat /\ counter \notin 0 .. (counter - 1)
      /\ 0 .. (counter - 1) \subseteq 0 .. (counter' - 1)
  BY <1>1 DEF MergeInv, TypeOK, SinkTypeOK
<1>4. /\ \A a \in down' : a.id # new.id
      /\ \A x \in (up \cup batch)' : x.id # new.id
  BY <1>2, <1>3 DEF MergeInv, SameKind, IdsIssuedOnce, Ids
<1>5. NoAwareness' /\ BatchSent'
  BY <1>1, <1>2 DEF MergeInv, NoAwareness, BatchSent
<1>6. SameKind'
  BY <1>1, <1>3, <1>4 DEF MergeInv, SameKind
<1>7. AllSafe'
  BY <1>1, <1>2, <1>4 DEF AllSafe, Safe, Asked
<1>. QED  BY <1>5, <1>6, <1>7

(* Merging what is queued leaves everything safe that was, and the queue is *)
(* all that changes.                                                        *)
LEMMA MergingIsSafe ==
  ASSUME AwarenessUpdates = {}, MergeInv, queue' \in Merged(queue),
         editor = "merging", editKind' = "Update",
         UNCHANGED <<flying, counter, batch, runner, up, down, localDoc, observer,
                     replySv, conn, connEvents, group, doc, stored>>
  PROVE  NoAwareness' /\ BatchSent' /\ SameKind' /\ AllSafe'
<1>1. /\ queue \in SUBSET Message /\ \A m, x \in queue : m.id = x.id => m = x
      /\ \A m \in queue : m.kind # "Awareness"
  BY DEF MergeInv, TypeOK, SinkTypeOK, IdsIssuedOnce, NoAwareness
<1>2. counter \in Nat /\ \A m \in queue : m.id <= counter /\ m.id \in Nat
  <2>1. counter \in Nat /\ \A m \in queue : m.id \in 0 .. (counter - 1)
    BY DEF MergeInv, TypeOK, SinkTypeOK, IdsIssuedOnce, Ids
  <2>. QED  BY <2>1
<1>3. /\ \A m \in queue : m.kind = "ClientInitSync" => m \in queue'
      /\ \A y \in queue' : \E m \in queue : m.id = y.id /\ m.kind = y.kind
  BY <1>1, MergedShape
<1>4. \A u : Queued(u) => Queued(u)'
  BY <1>1, <1>2, MergedKeeps DEF Queued
<1>5. NoAwareness' /\ BatchSent'
  BY <1>3 DEF MergeInv, NoAwareness, BatchSent
<1>6. SameKind'
  BY <1>3 DEF MergeInv, SameKind
<1>7. AllSafe'
  BY <1>3, <1>4 DEF MergeInv, AllSafe, Safe, Sent, Asked, ReconnectPending, ServerDoc
<1>. QED  BY <1>5, <1>6, <1>7

(* The reply to a sync step 1 queues what the server has not got.           *)
LEMMA AnsweringIsSafe ==
  ASSUME MergeInv, AnswerSyncStep1
  PROVE  NoAwareness' /\ BatchSent' /\ SameKind' /\ AllSafe'
<1>. DEFINE new == NewMsg("ServerInitSync", (localDoc \cap Updates) \ replySv)
            msgs == queue \cup {new}
<1>1. /\ new.id = counter /\ new.kind = "ServerInitSync" /\ new \in Message
      /\ new.ops = (localDoc \cap Updates) \ replySv
  BY NewMsgType DEF NewMsg, Kinds, MergeInv, TypeOK, Edits
<1>2. /\ queue' \in Merged(msgs) /\ counter' = counter + 1 /\ editor = "idle"
      /\ UNCHANGED <<flying, batch, runner, up, down, localDoc, editor, editKind, editOps,
                     conn, connEvents, group, doc, stored>>
  BY DEF AnswerSyncStep1, QueueMsg, connVars, serverVars
<1>. HIDE DEF new
<1>3. /\ \A m \in queue : m.id \in 0 .. (counter - 1)
      /\ \A m \in batch : m.id \in 0 .. (counter - 1)
      /\ flying \subseteq 0 .. (counter - 1) /\ counter \in Nat
  BY DEF MergeInv, IdsIssuedOnce, Ids, TypeOK, SinkTypeOK
<1>4. /\ counter \notin 0 .. (counter - 1)
      /\ 0 .. (counter - 1) \subseteq 0 .. (counter' - 1)
  BY <1>2, <1>3
<1>5. /\ msgs \in SUBSET Message
      /\ \A m, x \in msgs : m.id = x.id => m = x
      /\ \A m \in msgs : m.id <= counter
      /\ \A m \in msgs : m.kind # "Awareness"
  BY <1>1, <1>3 DEF MergeInv, TypeOK, SinkTypeOK, IdsIssuedOnce, NoAwareness
<1>6. /\ \A m \in msgs : m.kind = "ClientInitSync" => m \in queue'
      /\ \A y \in queue' : \E m \in msgs : m.id = y.id /\ m.kind = y.kind
  BY <1>2, <1>5, MergedShape
<1>7. ASSUME NEW x \in msgs, x.kind # "ClientInitSync", x.id \notin flying, NEW u \in x.ops
      PROVE  Queued(u)'
  BY <1>2, <1>3, <1>5, <1>7, MergedKeeps DEF Queued
<1>8. \A u : Queued(u) => Queued(u)'
  BY <1>7 DEF Queued
<1>9. \A u \in new.ops : Queued(u)'
  BY <1>1, <1>3, <1>4, <1>7
<1>10. NoAwareness' /\ BatchSent'
  BY <1>2, <1>5, <1>6 DEF MergeInv, NoAwareness, BatchSent
<1>11. SameKind'
  <2>1. \A y \in queue' : y.id = counter \/ \E m \in queue : m.id = y.id /\ m.kind = y.kind
    BY <1>1, <1>6
  <2>2. /\ \A x \in up \cup batch : x.id # counter
        /\ \A a \in down : a.id # counter
    BY <1>3, <1>4 DEF MergeInv, SameKind
  <2>. QED  BY <1>2, <1>4, <2>1, <2>2 DEF MergeInv, SameKind
<1>12. AllSafe'
  <2>1. ASSUME NEW u \in (localDoc' \cap Updates) \ ServerDoc' PROVE Safe(u)'
    <3>1. u \in (localDoc \cap Updates) \ ServerDoc
      BY <1>2, <2>1 DEF ServerDoc
    <3>2. CASE u \notin replySv
      BY <1>1, <1>9, <3>1, <3>2 DEF Safe
    <3>3. CASE u \in replySv
      BY <1>2, <1>6, <1>8, <3>1, <3>3
      DEF MergeInv, AllSafe, Safe, Sent, Asked, ReconnectPending
    <3>. QED  BY <3>2, <3>3
  <2>. QED  BY <2>1 DEF AllSafe
<1>. QED  BY <1>10, <1>11, <1>12

(* Every step keeps what merging relies on and everything safe.             *)
LEMMA MergeStep ==
  ASSUME AwarenessUpdates = {}, Faults \subseteq Harmless, MergeInv, [Next]_vars
  PROVE  NoAwareness' /\ BatchSent' /\ SameKind' /\ AllSafe'
<1>. DEFINE Goal == NoAwareness' /\ BatchSent' /\ SameKind' /\ AllSafe'
<1>0. /\ TypeOK /\ SinkTypeOK /\ IdsIssuedOnce /\ LastEvent /\ NoAwareness /\ BatchSent /\ SameKind
      /\ AllSafe /\ SessionFits
  BY DEF MergeInv, TypeOK
<1>01. /\ "loss" \notin Faults /\ "cannotApply" \notin Faults /\ "retry" \notin Faults
      /\ "collabBusy" \notin Faults /\ "sendError" \notin Faults
      /\ "secondRunner" \notin Faults
  BY DEF Harmless
<1>. USE DEF sinkVars, connVars, clientVars, serverVars
<1>1. CASE DidInit
  BY <1>1, InitSyncAsks DEF DidInit
<1>2. ASSUME NEW u \in Edits, BeginEdit(u) PROVE Goal
  <2>1. NoAwareness' /\ BatchSent' /\ SameKind'
    BY <1>0, <1>01, <1>2 DEF NoAwareness, BatchSent, SameKind, BeginEdit, Edits
  <2>2. AllSafe'
    BY <1>0, <1>01, <1>2 DEF AllSafe, Safe, Sent, Queued, Asked, ReconnectPending, ServerDoc, BeginEdit, Edits
  <2>. QED  BY <2>1, <2>2
<1>3. CASE PushEdit
  <2>. DEFINE new == NewMsg(editKind, editOps)
  <2>1. new.id = counter /\ new.kind = "Update" /\ new.ops = editOps
    BY <1>0 DEF NewMsg, NoAwareness
  <2>2. /\ queue' = queue \cup {new} /\ counter' = counter + 1
        /\ editor = "queueing" /\ editor' = "merging"
        /\ UNCHANGED <<flying, batch, runner, up, down, localDoc, editKind, editOps,
                       observer, replySv, conn, connEvents, group, doc, stored>>
    BY <1>3 DEF PushEdit, PushMsg
  <2>. HIDE DEF new
  <2>3. /\ flying \subseteq 0 .. (counter - 1) /\ counter \in Nat
        /\ \A x \in up \cup batch : x.id \in 0 .. (counter - 1)
    BY <1>0 DEF IdsIssuedOnce, Ids, SinkTypeOK, SameKind
  <2>4. /\ counter \notin 0 .. (counter - 1)
        /\ 0 .. (counter - 1) \subseteq 0 .. (counter' - 1)
    BY <2>2, <2>3
  <2>5. NoAwareness' /\ BatchSent'
    BY <1>0, <2>1, <2>2 DEF NoAwareness, BatchSent
  <2>6. SameKind'
    BY <1>0, <2>1, <2>2, <2>3, <2>4 DEF SameKind
  <2>7. ASSUME NEW u \in (localDoc' \cap Updates) \ ServerDoc' PROVE Safe(u)'
    <3>1. u \in (localDoc \cap Updates) \ ServerDoc /\ Safe(u)
      BY <1>0, <2>2, <2>7 DEF ServerDoc, AllSafe
    <3>2. CASE u \in editOps
      <4>1. Queued(u)'
        BY <2>1, <2>2, <2>3, <2>4, <3>2 DEF Queued
      <4>. QED  BY <4>1 DEF Safe
    <3>3. CASE u \notin editOps
      BY <2>2, <3>1, <3>3 DEF Safe, Sent, Queued, Asked, ReconnectPending
    <3>. QED  BY <3>2, <3>3
  <2>8. AllSafe'
    BY <2>7 DEF AllSafe
  <2>. QED  BY <2>5, <2>6, <2>8
<1>4. CASE EndEdit
  <2>1. CASE queue' \in Merged(queue)
    BY <1>4, <2>1, MergingIsSafe DEF EndEdit
  <2>2. CASE UNCHANGED queue
    BY <1>0, <1>4, <2>2
    DEF EndEdit, NoAwareness, BatchSent, SameKind, AllSafe, Safe, Sent, Queued, Asked,
        ReconnectPending, ServerDoc
  <2>. QED  BY <1>4, <2>1, <2>2 DEF EndEdit
<1>5. CASE RunnerStep
  <2>1. CASE ProcessPaused
    BY <1>0, <1>5, <2>1
    DEF RunnerStep, ProcessPaused, NoAwareness, BatchSent, SameKind, AllSafe, Safe, Sent,
        Queued, Asked, ReconnectPending, ServerDoc
  <2>2. CASE ProcessNextMsg
    <3>1. PICK taken \in SUBSET queue :
            /\ batch' = taken /\ flying' = flying \cup Ids(taken)
            /\ runner' = IF taken = {} THEN "waiting" ELSE "sending"
      BY <2>2 DEF ProcessNextMsg
    <3>2. /\ UNCHANGED <<queue, counter, localDoc, editor, editKind, editOps, observer,
                         replySv, conn, connEvents, up, down, group, doc, stored>>
          /\ batch = {}
      BY <1>0, <1>5, <2>2 DEF RunnerStep, ProcessNextMsg, TakeSignal, BatchSent
    <3>3. NoAwareness' /\ BatchSent'
      BY <1>0, <3>1, <3>2 DEF NoAwareness, BatchSent
    <3>4. SameKind'
      BY <1>0, <3>1, <3>2 DEF SameKind, IdsIssuedOnce
    <3>6. ASSUME NEW u \in (localDoc' \cap Updates) \ ServerDoc' PROVE Safe(u)'
      <4>1. u \in (localDoc \cap Updates) \ ServerDoc /\ Safe(u)
        BY <1>0, <3>2, <3>6 DEF ServerDoc, AllSafe
      <4>2. ASSUME Queued(u) PROVE Safe(u)'
        <5>1. PICK m \in queue :
                m.kind # "ClientInitSync" /\ u \in m.ops /\ m.id \notin flying
          BY <4>2 DEF Queued
        <5>2. CASE m \in taken /\ group
          BY <3>1, <3>2, <5>1, <5>2 DEF Safe, Sent
        <5>3. CASE m \notin taken
          <6>1. m.id \notin flying'
            BY <1>0, <3>1, <5>1, <5>3 DEF IdsIssuedOnce, Ids
          <6>. QED  BY <3>2, <5>1, <6>1 DEF Safe, Queued
        <5>4. CASE ~group
          BY <1>0, <3>2, <5>4 DEF SessionFits, Rejoins, Safe, Asked, ReconnectPending
        <5>. QED  BY <5>2, <5>3, <5>4
      <4>3. ASSUME ~Queued(u) PROVE Safe(u)'
        BY <3>2, <4>1, <4>3 DEF Safe, Sent, Asked, ReconnectPending
      <4>. QED  BY <4>2, <4>3
    <3>7. AllSafe'
      BY <3>6 DEF AllSafe
    <3>. QED  BY <3>3, <3>4, <3>7
  <2>. QED  BY <1>5, <2>1, <2>2 DEF RunnerStep
<1>6. CASE Send
  <2>1. NoAwareness' /\ BatchSent' /\ SameKind'
    BY <1>0, <1>6 DEF NoAwareness, BatchSent, SameKind, Send, SendBatch, IdsIssuedOnce, Ids
  <2>2. AllSafe'
    BY <1>0, <1>01, <1>6 DEF AllSafe, Safe, Sent, Queued, Asked, ReconnectPending, ServerDoc, Send, SendBatch
  <2>. QED  BY <2>1, <2>2
<1>7. CASE SendFails
  BY <1>01, <1>7 DEF SendFails, Fault
<1>8. CASE IntervalTick
  <2>1. NoAwareness' /\ BatchSent' /\ SameKind'
    BY <1>0, <1>01, <1>8 DEF NoAwareness, BatchSent, SameKind, IntervalTick, Tick
  <2>2. AllSafe'
    BY <1>0, <1>01, <1>8 DEF AllSafe, Safe, Sent, Queued, Asked, ReconnectPending, ServerDoc, IntervalTick, Tick
  <2>. QED  BY <2>1, <2>2
<1>9. ASSUME NEW a \in down, ReceiveAccepted(a) PROVE Goal
  <2>1. PICK top \in queue : AcceptResponse(a.id, top)
    BY <1>9 DEF ReceiveAccepted
  <2>2. /\ a.id = top.id /\ a.id \in flying /\ queue' = queue \ {top}
        /\ flying' = flying \ {a.id} /\ down' \subseteq down
        /\ observer = "receiving" /\ replySv' = a.sv
        /\ observer' = IF a.reply THEN "payload" ELSE "receiving"
        /\ UNCHANGED <<counter, batch, runner, up, localDoc, editor, editKind, editOps,
                       conn, connEvents, group, doc, stored>>
    BY <1>9, <2>1 DEF ReceiveAccepted, AcceptResponse, Acknowledges, Takes
  <2>3. a.reply <=> top.kind = "ClientInitSync"
    BY <1>0, <2>2 DEF SameKind
  <2>4. NoAwareness' /\ BatchSent' /\ SameKind'
    BY <1>0, <2>2 DEF NoAwareness, BatchSent, SameKind
  <2>6. ASSUME NEW u \in (localDoc' \cap Updates) \ ServerDoc' PROVE Safe(u)'
    <3>1. u \in (localDoc \cap Updates) \ ServerDoc /\ Safe(u)
      BY <1>0, <2>2, <2>6 DEF ServerDoc, AllSafe
    <3>2. CASE Queued(u)
      BY <2>2, <3>2 DEF Queued, Safe
    <3>3. CASE Asked(u)
      <4>1. PICK m \in queue : /\ m.kind = "ClientInitSync"
                               /\ \A b \in down : ~(b.id = m.id /\ u \in b.sv)
        BY <3>3 DEF Asked
      <4>2. CASE m = top
        BY <2>2, <2>3, <4>1, <4>2 DEF Safe
      <4>3. CASE m # top
        BY <2>2, <4>1, <4>3 DEF Safe, Asked
      <4>. QED  BY <4>2, <4>3
    <3>4. CASE ~Queued(u) /\ ~Asked(u)
      BY <2>2, <3>1, <3>4 DEF Safe, Sent, ReconnectPending
    <3>. QED  BY <3>2, <3>3, <3>4
  <2>7. AllSafe'
    BY <2>6 DEF AllSafe
  <2>. QED  BY <2>4, <2>7
<1>10. ASSUME NEW a \in down, ReceiveRefused(a) PROVE Goal
  <2>1. NoAwareness' /\ BatchSent' /\ SameKind'
    BY <1>0, <1>01, <1>10 DEF NoAwareness, BatchSent, SameKind, ReceiveRefused, Takes, RefuseResponse
  <2>2. AllSafe'
    BY <1>0, <1>01, <1>10 DEF AllSafe, Safe, Sent, Queued, Asked, ReconnectPending, ServerDoc, ReceiveRefused, Takes, RefuseResponse
  <2>. QED  BY <2>1, <2>2
<1>11. ASSUME NEW a \in down, ReceiveCannotApply(a) PROVE Goal
  BY <1>0, <1>11 DEF ReceiveCannotApply, SameKind
<1>12. CASE AnswerSyncStep1
  BY <1>12, AnsweringIsSafe
<1>13. CASE DropSyncStep1 \/ ListenConnectedBusy
  BY <1>01, <1>13 DEF DropSyncStep1, ListenConnectedBusy
<1>14. CASE MissedBroadcast
  BY <1>14, InitSyncAsks DEF MissedBroadcast
<1>15. CASE Disconnect
  <2>1. NoAwareness' /\ BatchSent' /\ SameKind'
    BY <1>0, <1>01, <1>15 DEF NoAwareness, BatchSent, SameKind, Disconnect
  <2>2. AllSafe'
    BY <1>0, <1>01, <1>15 DEF AllSafe, Safe, Sent, Queued, Asked, ReconnectPending, ServerDoc, Disconnect
  <2>. QED  BY <2>1, <2>2
<1>16. CASE Reconnect
  <2>1. NoAwareness' /\ BatchSent' /\ SameKind'
    BY <1>0, <1>01, <1>16 DEF NoAwareness, BatchSent, SameKind, Reconnect, TypeOK
  <2>2. AllSafe'
    BY <1>0, <1>01, <1>16 DEF AllSafe, Safe, Sent, Queued, Asked, ReconnectPending, ServerDoc, Reconnect, TypeOK
  <2>. QED  BY <2>1, <2>2
<1>17. CASE ListenLost
  <2>1. /\ ReconnectPending => ReconnectPending'
        /\ UNCHANGED <<queue, flying, counter, batch, runner, up, down, localDoc, editor,
                       editKind, editOps, observer, replySv, group, doc, stored>>
    BY <1>0, <1>17, TailLast DEF ListenLost, LastEvent, ReconnectPending, TypeOK
  <2>. QED
    BY <1>0, <2>1 DEF NoAwareness, BatchSent, SameKind, AllSafe, Safe, Sent, Queued, Asked,
                      ReconnectPending, ServerDoc
<1>18. CASE ListenConnected
  BY <1>18, InitSyncAsks DEF ListenConnected, StartInitSync
<1>20. ASSUME NEW m \in up,
              ServerInitSync(m) \/ ServerLoadsLess(m) \/ ServerCreatesAgain(m)
       PROVE  Goal
  <2>1. PICK loaded : Welcome(m, loaded) /\ up' \subseteq up /\ (group => loaded = doc)
    <3>1. CASE ServerInitSync(m)
      <4>1. Welcome(m, ServerDoc) /\ up' \subseteq up /\ (group => ServerDoc = doc)
        BY <3>1 DEF ServerInitSync, ServerDoc, Arrives
      <4> QED BY <4>1
    <3>2. CASE ServerLoadsLess(m)
      BY <3>2 DEF ServerLoadsLess
    <3>3. ~ServerCreatesAgain(m)
      BY <1>01 DEF ServerCreatesAgain, Fault
    <3> QED BY <1>20, <3>1, <3>2, <3>3
  <2>2. /\ m.kind = "ClientInitSync" /\ group' /\ doc' = loaded
        /\ down' = down \cup {[id |-> m.id, code |-> "Success", reply |-> TRUE, sv |-> loaded]}
        /\ UNCHANGED <<queue, flying, counter, batch, runner, localDoc, editor, editKind,
                       editOps, observer, replySv, conn, connEvents, stored>>
    BY <2>1 DEF Welcome, Answer
  <2>3. NoAwareness' /\ BatchSent' /\ SameKind'
    BY <1>0, <2>1, <2>2 DEF NoAwareness, BatchSent, SameKind
  <2>4. ASSUME NEW u \in (localDoc' \cap Updates) \ ServerDoc' PROVE Safe(u)'
    <3>1. u \in localDoc \cap Updates /\ u \notin loaded
      BY <2>2, <2>4 DEF ServerDoc
    <3>2. CASE group
      <4>1. Safe(u) /\ up' \subseteq up
        BY <1>0, <2>1, <3>1, <3>2 DEF AllSafe, ServerDoc
      <4>2. Sent(u) => Sent(u)'
        BY <1>01, <1>20, <2>2, <3>2 DEF Sent, ServerInitSync, ServerLoadsLess,
                                        ServerCreatesAgain, Arrives, Fault
      <4>3. Asked(u) => Asked(u)'
        BY <2>2, <3>1 DEF Asked
      <4>. QED  BY <2>2, <4>1, <4>2, <4>3 DEF Safe, Queued, ReconnectPending
    <3>3. CASE ~group
      <4>1. Rejoins
        BY <1>0, <3>3 DEF SessionFits
      <4>. QED  BY <2>2, <3>1, <4>1 DEF Rejoins, Safe, Asked, ReconnectPending
    <3>. QED  BY <3>2, <3>3
  <2>5. AllSafe'
    BY <2>4 DEF AllSafe
  <2>. QED  BY <2>3, <2>5
<1>28. CASE ServerForgets
  BY <1>0, <1>28 DEF ServerForgets, NoAwareness, BatchSent, SameKind, AllSafe, Safe, Sent,
                     Queued, Asked, ReconnectPending, ServerDoc
<1>21. ASSUME NEW m \in up, ServerApply(m) PROVE Goal
  <2>1. NoAwareness' /\ BatchSent' /\ SameKind'
    BY <1>0, <1>01, <1>21 DEF NoAwareness, BatchSent, SameKind, ServerApply, Arrives, Answer
  <2>2. AllSafe'
    BY <1>0, <1>01, <1>21 DEF AllSafe, Safe, Sent, Queued, Asked, ReconnectPending, ServerDoc, ServerApply, Arrives, Answer
  <2>. QED  BY <2>1, <2>2
<1>22. ASSUME NEW m \in up, ServerDrops(m) PROVE Goal
  <2>1. NoAwareness' /\ BatchSent' /\ SameKind'
    BY <1>0, <1>01, <1>22 DEF NoAwareness, BatchSent, SameKind, ServerDrops, Arrives
  <2>2. AllSafe'
    BY <1>0, <1>01, <1>22 DEF AllSafe, Safe, Sent, Queued, Asked, ReconnectPending, ServerDoc, ServerDrops, Arrives, SessionFits
  <2>. QED  BY <2>1, <2>2
<1>23. ASSUME NEW m \in up, ServerCannotApply(m) PROVE Goal
  BY <1>01, <1>23 DEF ServerCannotApply, Fault
<1>24. CASE RemoveGroup
  <2>1. NoAwareness' /\ BatchSent' /\ SameKind'
    BY <1>0, <1>01, <1>24 DEF NoAwareness, BatchSent, SameKind, RemoveGroup
  <2>2. AllSafe'
    BY <1>0, <1>01, <1>24 DEF AllSafe, Safe, Sent, Queued, Asked, ReconnectPending, ServerDoc, RemoveGroup, SessionFits, Rejoins
  <2>. QED  BY <2>1, <2>2
<1>25. CASE ServerCrash
  <2>1. NoAwareness' /\ BatchSent' /\ SameKind'
    BY <1>0, <1>01, <1>25 DEF NoAwareness, BatchSent, SameKind, ServerCrash
  <2>2. AllSafe'
    BY <1>0, <1>01, <1>25 DEF AllSafe, Safe, Sent, Queued, Asked, ReconnectPending, ServerDoc, ServerCrash
  <2>. QED  BY <2>1, <2>2
<1>26. CASE Lose
  BY <1>01, <1>26 DEF Lose, Fault
<1>27. CASE UNCHANGED vars
  <2>1. NoAwareness' /\ BatchSent' /\ SameKind'
    BY <1>0, <1>01, <1>27 DEF NoAwareness, BatchSent, SameKind, vars
  <2>2. AllSafe'
    BY <1>0, <1>01, <1>27 DEF AllSafe, Safe, Sent, Queued, Asked, ReconnectPending, ServerDoc, vars
  <2>. QED  BY <2>1, <2>2
<1>. QED
  BY <1>1, <1>2, <1>3, <1>4, <1>5, <1>6, <1>7, <1>8, <1>9, <1>10, <1>11, <1>12, <1>13,
     <1>14, <1>15, <1>16, <1>17, <1>18, <1>20, <1>21, <1>22, <1>23, <1>24, <1>25,
     <1>26, <1>27, <1>28, NextIsActionStep DEF ActionStep

(* Merging is harmless on a network that loses nothing, if no awareness     *)
(* update is queued: although merge changes messages that are already on    *)
(* their way, and a late response to the first sending takes away the merged *)
(* message, every update is on the server or still has a way to it.         *)
THEOREM MergingLosesNothing ==
  ASSUME AwarenessUpdates = {}, Faults \subseteq Harmless
  PROVE  Spec => []NothingVanishes
<1>1. Init => MergeInv
  <2>. SUFFICES ASSUME Init PROVE MergeInv
    OBVIOUS
  <2>1. TypeOK /\ IdsIssuedOnce /\ LastEvent /\ PausedUntilConnected
    BY TypeInit DEF Init, SinkInit, IdsIssuedOnce, Ids, LastEvent, PausedUntilConnected
  <2>2. NoAwareness /\ BatchSent /\ SameKind /\ SessionFits /\ AllSafe
    BY DEF Init, SinkInit, NoAwareness, BatchSent, SameKind, AllSafe, Safe, SessionFits,
           Rejoins
  <2>. QED  BY <2>1, <2>2 DEF MergeInv
<1>2. MergeInv /\ [Next]_vars => MergeInv'
  <2>. SUFFICES ASSUME MergeInv, [Next]_vars PROVE MergeInv'
    OBVIOUS
  <2>1. TypeOK' /\ IdsIssuedOnce'
    BY TypeStep, IssuedStep DEF MergeInv
  <2>4. SessionFits'
    <3>1. \A a \in down : a.id \in 0 .. (counter - 1)
      BY DEF MergeInv, SameKind
    <3> QED BY <3>1, SessionStep DEF MergeInv, Harmless
  <2>2. LastEvent' /\ PausedUntilConnected'
    BY EventStep DEF MergeInv, Harmless
  <2>3. NoAwareness' /\ BatchSent' /\ SameKind' /\ AllSafe'
    BY MergeStep
  <2>. QED  BY <2>1, <2>2, <2>3, <2>4 DEF MergeInv
<1>3. MergeInv => NothingVanishes
  BY DEF MergeInv, AllSafe, Safe, Sent, Queued, Asked, NothingVanishes, Carries
<1>. QED  BY <1>1, <1>2, <1>3, PTL DEF Spec

-----------------------------------------------------------------------------
(* The invariant behind the refinement of CollabDocument: every payload,    *)
(* wherever it waits or is kept, was taken from the client's own document.  *)
OwnEdits ==
  /\ \A m \in queue \cup batch \cup up : m.ops \subseteq localDoc
  /\ editOps \subseteq localDoc /\ OfflineUpdates \subseteq localDoc
  /\ doc \subseteq localDoc /\ stored \subseteq localDoc
  /\ \A v \in versions : v \subseteq localDoc

DocumentInv == TypeOK /\ OwnEdits /\ (session = "subscribed" => group)

(* Merging brings no edit into the queue.                                   *)
LEMMA MergedOps ==
  ASSUME NEW msgs \in SUBSET Message, NEW q \in Merged(msgs), NEW S,
         \A m \in msgs : m.ops \subseteq S
  PROVE  \A m \in q : m.ops \subseteq S
<1>1. CASE DisableMergeMessage
  BY <1>1 DEF Merged
<1>2. CASE ~DisableMergeMessage
  <2>1. PICK heads \in SUBSET Mergeable(msgs) : q = Absorb(msgs, heads)
    BY <1>2 DEF Merged
  <2>2. heads \subseteq msgs
    BY <2>1 DEF Mergeable
  <2>3. ASSUME NEW h \in heads
        PROVE  [h EXCEPT !.ops = Payload(msgs, h, NextHead(msgs, heads, h))].ops \subseteq S
    <3>1. h \in Message
      BY <2>2, <2>3
    <3>2. Payload(msgs, h, NextHead(msgs, heads, h)) \subseteq S
      BY <2>2, <2>3 DEF Payload, Mergeable
    <3> QED BY <3>1, <3>2 DEF Message
  <2> QED BY <2>1, <2>3 DEF Absorb
<1> QED BY <1>1, <1>2

(* Every step keeps payloads and documents within the client's document.    *)
LEMMA OwnStep ==
  ASSUME DocumentInv, [Next]_vars
  PROVE  OwnEdits'
<1>0. /\ queue \in SUBSET Message /\ localDoc \in SUBSET Edits /\ editOps \in SUBSET Edits
      /\ \A m \in queue \cup batch \cup up : m.ops \subseteq localDoc
      /\ editOps \subseteq localDoc /\ doc \subseteq localDoc /\ stored \subseteq localDoc
      /\ \A v \in versions : v \subseteq localDoc
      /\ OfflineUpdates \subseteq localDoc
  BY DEF DocumentInv, OwnEdits, TypeOK, SinkTypeOK
<1> USE DEF clientVars, connVars, serverVars, sinkVars
<1>1. ASSUME NEW missed, QueueInitSync(localDoc, missed),
             UNCHANGED <<batch, up, localDoc, editOps, doc, stored, versions>>
      PROVE  OwnEdits'
  <2>1. NewMsg("ClientInitSync", localDoc).ops = localDoc
    BY DEF NewMsg
  <2> QED BY <1>0, <1>1, <2>1 DEF QueueInitSync, OwnEdits
<1>2. CASE DidInit \/ MissedBroadcast \/ ListenConnected
  BY <1>1, <1>2 DEF DidInit, MissedBroadcast, ListenConnected, StartInitSync
<1>3. CASE \E u \in Edits : BeginEdit(u)
  BY <1>0, <1>3 DEF BeginEdit, OwnEdits
<1>4. CASE PushEdit
  <2>1. NewMsg(editKind, editOps).ops = editOps
    BY DEF NewMsg
  <2> QED BY <1>0, <1>4, <2>1 DEF PushEdit, PushMsg, OwnEdits
<1>5. CASE EndEdit
  <2>1. \A m \in queue' : m.ops \subseteq localDoc
    BY <1>0, <1>5, MergedOps DEF EndEdit
  <2> QED BY <1>0, <1>5, <2>1 DEF EndEdit, OwnEdits
<1>6. CASE AnswerSyncStep1
  <2> DEFINE answer == NewMsg("ServerInitSync", (localDoc \cap Updates) \ replySv)
             pushed == queue \cup {answer}
  <2>1. answer \in Message /\ answer.ops \subseteq localDoc
    BY <1>0, NewMsgType DEF NewMsg, Kinds, Edits, DocumentInv, TypeOK
  <2>2. queue' \in Merged(pushed)
    BY <1>6 DEF AnswerSyncStep1, QueueMsg
  <2> HIDE DEF answer
  <2>3. pushed \in SUBSET Message /\ \A m \in pushed : m.ops \subseteq localDoc
    BY <1>0, <2>1
  <2> HIDE DEF pushed
  <2>4. \A m \in queue' : m.ops \subseteq localDoc
    BY <2>2, <2>3, MergedOps
  <2> QED BY <1>0, <1>6, <2>4 DEF AnswerSyncStep1, OwnEdits
<1>7. CASE RunnerStep \/ Send \/ SendFails \/ IntervalTick
  BY <1>0, <1>7 DEF RunnerStep, ProcessPaused, ProcessNextMsg, Send, SendBatch, SendFails,
                    SendBatchFails, IntervalTick, Tick, OwnEdits
<1>8. CASE \E a \in down : ReceiveAccepted(a) \/ ReceiveRefused(a) \/ ReceiveCannotApply(a)
  BY <1>0, <1>8 DEF ReceiveAccepted, AcceptResponse, ReceiveRefused, RefuseResponse,
                    ReceiveCannotApply, OwnEdits
<1>9. CASE \E m \in up : ServerInitSync(m) \/ ServerLoadsLess(m) \/ ServerCreatesAgain(m)
  <2>1. PICK m \in up :
          ServerInitSync(m) \/ ServerLoadsLess(m) \/ ServerCreatesAgain(m)
    BY <1>9
  <2>2. up' \subseteq up
    BY <2>1 DEF ServerInitSync, ServerLoadsLess, ServerCreatesAgain, Arrives
  <2>3. PICK loaded \in versions \cup {ServerDoc} : Welcome(m, loaded)
    BY <2>1 DEF ServerInitSync, ServerLoadsLess, ServerCreatesAgain
  <2>4. loaded \subseteq localDoc
    BY <1>0, <2>3 DEF ServerDoc
  <2> QED BY <1>0, <2>2, <2>3, <2>4 DEF Welcome, OwnEdits
<1>10. CASE \E m \in up : ServerApply(m)
  BY <1>0, <1>10 DEF ServerApply, Arrives, OwnEdits
<1>11. CASE \E m \in up : ServerDrops(m) \/ ServerCannotApply(m)
  BY <1>0, <1>11 DEF ServerDrops, ServerCannotApply, Arrives, OwnEdits
<1>12. CASE ServerForgets \/ RemoveGroup \/ ServerCrash \/ Lose
  BY <1>0, <1>12 DEF ServerForgets, RemoveGroup, ServerCrash, Lose, OwnEdits
<1>13. CASE \/ DropSyncStep1 \/ Disconnect \/ Reconnect
            \/ ListenLost \/ ListenConnectedBusy \/ UNCHANGED vars
  BY <1>0, <1>13 DEF DropSyncStep1, Disconnect, Reconnect, ListenLost, Pause,
                     ListenConnectedBusy, OwnEdits, vars
<1> QED
  BY <1>2, <1>3, <1>4, <1>5, <1>6, <1>7, <1>8, <1>9, <1>10, <1>11, <1>12, <1>13,
     NextIsActionStep DEF ActionStep

(* Only a group has a subscriber.                                           *)
LEMMA SubscribedStep ==
  ASSUME session = "subscribed" => group, [Next]_vars
  PROVE  session' = "subscribed" => group'
<1> USE DEF serverVars
<1>1. CASE \E m \in up : \/ ServerInitSync(m) \/ ServerLoadsLess(m) \/ ServerCreatesAgain(m)
                        \/ ServerApply(m) \/ ServerCannotApply(m)
  <2>1. ASSUME NEW m, NEW loaded, Welcome(m, loaded) PROVE group'
    BY <2>1 DEF Welcome
  <2>2. ASSUME NEW m, ServerApply(m) \/ ServerCannotApply(m) PROVE group'
    BY <2>2 DEF ServerApply, ServerCannotApply
  <2> QED
    BY <1>1, <2>1, <2>2 DEF ServerInitSync, ServerLoadsLess, ServerCreatesAgain
<1>2. CASE Reconnect \/ ServerForgets \/ ServerCrash \/ RemoveGroup
  BY <1>2 DEF Reconnect, ServerForgets, ServerCrash, RemoveGroup
<1>3. CASE UNCHANGED <<session, group>>
  BY <1>3
<1> QED
  BY <1>1, <1>2, <1>3, NextIsActionStep
  DEF ActionStep, DidInit, BeginEdit, PushEdit, EndEdit, RunnerStep, Send, SendFails,
      IntervalTick, ReceiveAccepted, ReceiveRefused, ReceiveCannotApply, AnswerSyncStep1,
      DropSyncStep1, MissedBroadcast, Disconnect, ListenLost, ListenConnected,
      ListenConnectedBusy, ServerDrops, Lose, vars

(* Under the invariant every step is one of CollabDocument's or a stutter.  *)
LEMMA NextImplements ==
  DocumentInv /\ [Next]_vars => [Shared!DocumentNext]_(Shared!documentVars)
<1> SUFFICES ASSUME DocumentInv, [Next]_vars
             PROVE  [Shared!DocumentNext]_(Shared!documentVars)
  OBVIOUS
<1>0. /\ OwnEdits /\ TheClient \in {TheClient} /\ doc \in SUBSET Updates
      /\ stored \in SUBSET Updates
  BY DEF DocumentInv, TypeOK
<1>1. ServerDoc \subseteq localDoc \cap Updates
  BY <1>0 DEF OwnEdits, ServerDoc
<1>2. Shared!Everything = localDoc \cap Updates
  BY SyncAssumption, <1>0 DEF Shared!Everything, OwnEdits
<1> USE DEF clientVars, connVars, serverVars, sinkVars
<1>3. ASSUME localDoc' \cap Updates = localDoc \cap Updates, UNCHANGED <<ServerDoc, session>>
      PROVE  UNCHANGED Shared!documentVars
  BY <1>3 DEF Shared!documentVars
<1>4. ASSUME NEW u \in Edits, BeginEdit(u)
      PROVE  [Shared!DocumentNext]_(Shared!documentVars)
  <2>1. /\ u \notin localDoc /\ localDoc' = localDoc \cup {u}
        /\ UNCHANGED <<group, doc, stored, session>>
    BY <1>4 DEF BeginEdit
  <2>2. UNCHANGED ServerDoc
    BY <2>1 DEF ServerDoc
  <2>3. CASE u \in Updates
    <3>1. localDoc' \cap Updates = (localDoc \cap Updates) \cup {u}
      BY <2>1, <2>3
    <3>2. Shared!Make(TheClient, u)
      BY <1>2, <2>1, <2>2, <3>1 DEF Shared!Make
    <3> QED BY <1>0, <2>3, <3>2 DEF Shared!DocumentNext
  <2>4. CASE u \notin Updates
    BY <1>3, <2>1, <2>2, <2>4
  <2> QED BY <2>3, <2>4
<1>5. ASSUME NEW m \in up, ServerApply(m) PROVE Shared!DocumentNext
  <2>1. /\ group /\ group' /\ doc' = doc \cup (m.ops \cap Updates)
        /\ session' = "subscribed" /\ UNCHANGED localDoc
    BY <1>5 DEF ServerApply, Subscribe
  <2>2. m.ops \cap Updates \in SUBSET (localDoc \cap Updates)
    BY <1>0 DEF OwnEdits
  <2>3. ServerDoc' = ServerDoc \cup (m.ops \cap Updates)
    BY <2>1 DEF ServerDoc
  <2>4. Shared!Accept(TheClient)
    BY <2>1, <2>2, <2>3 DEF Shared!Accept
  <2> QED BY <1>0, <2>4 DEF Shared!DocumentNext
<1>6. ASSUME session' = "subscribed", UNCHANGED <<localDoc, ServerDoc>>
      PROVE  Shared!DocumentNext
  <2>1. Shared!Join(TheClient)
    BY <1>6 DEF Shared!Join
  <2> QED BY <1>0, <2>1 DEF Shared!DocumentNext
<1>7. ASSUME session' # "subscribed", UNCHANGED <<localDoc, ServerDoc>>
      PROVE  Shared!DocumentNext
  <2>1. Shared!Leave(TheClient)
    BY <1>7 DEF Shared!Leave
  <2> QED BY <1>0, <2>1 DEF Shared!DocumentNext
<1>8. CASE Reconnect \/ ServerForgets
  BY <1>7, <1>8 DEF Reconnect, ServerForgets, ServerDoc
<1>9. ASSUME NEW m \in up, ServerInitSync(m) \/ ServerCannotApply(m)
      PROVE  Shared!DocumentNext
  <2>1. CASE ServerInitSync(m)
    <3>1. Welcome(m, ServerDoc)
      BY <2>1 DEF ServerInitSync
    <3>2. group' /\ doc' = ServerDoc /\ session' = "subscribed" /\ UNCHANGED localDoc
      BY <3>1 DEF Welcome, Subscribe
    <3>3. UNCHANGED ServerDoc
      BY <3>2 DEF ServerDoc
    <3> QED BY <1>6, <3>2, <3>3
  <2>2. CASE ServerCannotApply(m)
    BY <1>6, <2>2 DEF ServerCannotApply, Subscribe, ServerDoc
  <2> QED BY <1>9, <2>1, <2>2
<1>11. ASSUME NEW m \in up, ServerLoadsLess(m) \/ ServerCreatesAgain(m)
       PROVE  Shared!DocumentNext
  <2>1. PICK loaded \in versions : Welcome(m, loaded)
    BY <1>11 DEF ServerLoadsLess, ServerCreatesAgain
  <2>2. /\ session' = "subscribed" /\ UNCHANGED localDoc /\ ServerDoc' = loaded
        /\ loaded \in SUBSET (localDoc \cap Updates)
    BY <1>0, <2>1 DEF Welcome, Subscribe, ServerDoc, OwnEdits, DocumentInv, TypeOK
  <2>3. session = "subscribed" => "secondRunner" \in Faults
    BY <1>11 DEF ServerLoadsLess, ServerCreatesAgain, Fault, DocumentInv
  <2>4. Shared!Load(TheClient)
    BY <1>2, <2>2, <2>3 DEF Shared!Load
  <2> QED BY <1>0, <2>4 DEF Shared!DocumentNext
<1>12. CASE RemoveGroup \/ ServerCrash
  <2>1. session' # "subscribed" /\ UNCHANGED localDoc /\ ~group' /\ stored' \in {doc, stored}
    BY <1>12 DEF RemoveGroup, ServerCrash
  <2>2. ServerDoc' \in SUBSET (localDoc \cap Updates)
    BY <1>0, <2>1 DEF OwnEdits, ServerDoc
  <2>3. Shared!Close
    BY <1>2, <2>1, <2>2 DEF Shared!Close
  <2> QED BY <2>3 DEF Shared!DocumentNext
<1>10. CASE UNCHANGED <<localDoc, session, group, doc, stored>>
  BY <1>3, <1>10 DEF ServerDoc
<1> QED
  BY <1>4, <1>5, <1>8, <1>9, <1>10, <1>11, <1>12, NextIsActionStep
  DEF ActionStep, DidInit, PushEdit, EndEdit, RunnerStep, Send, SendFails, IntervalTick,
      ReceiveAccepted, ReceiveRefused, ReceiveCannotApply, AnswerSyncStep1, DropSyncStep1,
      MissedBroadcast, Disconnect, ListenLost, ListenConnected, ListenConnectedBusy,
      ServerDrops, Lose, vars

(* With or without merging and under every fault, one client and its server *)
(* implement CollabDocument: the server has only what the client made, and  *)
(* its document goes back only in a step that ends the group, or loads it   *)
(* while the client is not subscribed, or replaces it by a second runner's  *)
(* (CollabSink, SyncPlugin, GroupCommandRunner, StoragePlugin::init).       *)
THEOREM SyncImplementsDocument == Spec => ImplementsDocument
<1>1. Init => Shared!DocumentInit
  BY SyncAssumption DEF Init, ServerDoc, Shared!DocumentInit
<1>2. Init => DocumentInv
  BY TypeInit DEF Init, SinkInit, DocumentInv, OwnEdits
<1>3. DocumentInv /\ [Next]_vars => DocumentInv'
  BY TypeStep, OwnStep, SubscribedStep DEF DocumentInv
<1> QED
  BY <1>1, <1>2, <1>3, NextImplements, PTL
  DEF Spec, ImplementsDocument, Shared!DocumentSpec

(* A subscriber's document is not loaded again: no resend, merge, init sync *)
(* or answer, however late or repeated, and no tick of the groups makes the *)
(* server's document go back under a subscribed client; only the insert of  *)
(* a second runner does (handle_collab_message, AllGroup::tick).            *)
THEOREM SubscribersKeepTheDocument == Spec => SubscribedServerKeeps
<1> DEFINE Inv == session = "subscribed" => group
<1>1. Init => Inv
  BY DEF Init
<1>2. Inv /\ [Next]_vars => Inv'
  BY SubscribedStep
<1>3. ASSUME Inv, [Next]_vars, session = "subscribed", session' = "subscribed",
             ~ \E m \in up : ServerCreatesAgain(m)
      PROVE  ServerDoc \subseteq ServerDoc'
  <2>1. group /\ group'
    BY <1>2, <1>3
  <2>2. doc \subseteq doc'
    <3>1. CASE \E m \in up : ServerInitSync(m) \/ ServerLoadsLess(m) \/ ServerApply(m)
      BY <2>1, <3>1 DEF ServerInitSync, ServerLoadsLess, Welcome, ServerApply, ServerDoc
    <3>2. CASE RemoveGroup \/ ServerCrash
      BY <2>1, <3>2 DEF RemoveGroup, ServerCrash
    <3>3. CASE UNCHANGED doc
      BY <3>3
    <3> QED
      BY <1>3, <3>1, <3>2, <3>3, NextIsActionStep
      DEF ActionStep, DidInit, BeginEdit, PushEdit, EndEdit, RunnerStep, Send, SendFails,
          IntervalTick, ReceiveAccepted, ReceiveRefused, ReceiveCannotApply,
          AnswerSyncStep1, DropSyncStep1, MissedBroadcast, Disconnect, Reconnect,
          ListenLost, ListenConnected, ListenConnectedBusy, ServerDrops, ServerCannotApply,
          ServerForgets, Lose, serverVars, vars
  <2> QED BY <2>1, <2>2 DEF ServerDoc
<1> QED
  BY <1>1, <1>2, <1>3, PTL DEF Spec, SubscribedServerKeeps

=============================================================================
