------------------------------ MODULE CollabSink ------------------------------
(***************************************************************************)
(* The client's outgoing queue for one collab object: the state and the    *)
(* operations of CollabSink and of the CollabSinkRunner task that drains   *)
(* it (lib/client-api/src/collab_sync/sink.rs, sink_queue.rs), and the     *)
(* priorities and merging rules of the messages it holds                   *)
(* (lib/realtime-entity/src/collab_msg.rs).                                *)
(*                                                                         *)
(* The queue is a binary heap.  It is modelled by the set of the messages  *)
(* in it and the order in which they are popped; messages the code's Ord   *)
(* calls Equal may be popped in either order.  A payload is abstracted to  *)
(* the set of edits it carries.  Time is abstracted: a signal sent with a  *)
(* delay is a signal.                                                      *)
(*                                                                         *)
(* The module has no next-state relation of its own: CollabSync composes   *)
(* these operations with the threads that call them, the network and the   *)
(* server.                                                                 *)
(***************************************************************************)
EXTENDS Integers, FiniteSets

CONSTANTS
  Updates,              \* the document edits this client can make
  AwarenessUpdates,     \* the awareness (cursor, presence) changes it can make
  MaximumPayloadSize,   \* SinkConfig.maximum_payload_size, in edits
  DisableMergeMessage,  \* SinkConfig.disable_merge_message
  BatchLimit            \* 20 in get_next_batch_item

ASSUME SinkAssumption ==
  /\ Updates \cap AwarenessUpdates = {}
  /\ MaximumPayloadSize \in Nat \ {0}
  /\ DisableMergeMessage \in BOOLEAN
  /\ BatchLimit \in Nat

VARIABLES
  queue,      \* message_queue: the set of messages waiting for an ack
  flying,     \* flying_messages: ids sent and not to be sent again until a tick
  counter,    \* msg_id_counter: the next message id
  sinkState,  \* state_notifier
  paused,     \* pause
  notified,   \* notifier: a signal the runner has not seen (later ones coalesce)
  runner,     \* where the CollabSinkRunner task is
  batch       \* the clones the runner took from the queue and is sending

sinkVars == <<queue, flying, counter, sinkState, paused, notified, runner, batch>>

(* ClientUpdateSync carries either a document update or an awareness       *)
(* update; the two are told apart only by decoding the payload.            *)
UpdateSync == {"Update", "Awareness"}
Kinds == {"ClientInitSync", "ServerInitSync"} \cup UpdateSync

Edits == Updates \cup AwarenessUpdates
Message == [id : Nat, kind : Kinds, ops : SUBSET Edits]

SinkStates == {"Init", "Syncing", "Finished", "Pause"}
RunnerStates == {"waiting", "sending"}

Ids(msgs) == {m.id : m \in msgs}

-----------------------------------------------------------------------------
(* Ord of ClientCollabMessage: init syncs first, then server init syncs,   *)
(* then the updates by increasing id.                                      *)
Rank(m) == CASE m.kind = "ClientInitSync" -> 2
             [] m.kind = "ServerInitSync" -> 1
             [] OTHER                     -> 0

PoppedBefore(m, n) ==
  \/ Rank(m) > Rank(n)
  \/ Rank(m) = 0 /\ Rank(n) = 0 /\ m.id < n.id

(* The messages a pop may return.                                          *)
Tops(msgs) == {m \in msgs : \A n \in msgs : ~PoppedBefore(n, m)}

(* get_next_batch_item: messages are taken in order until one is flying,   *)
(* an init sync was taken, or more than BatchLimit are taken.              *)
IsNextBatch(taken) ==
  /\ \A m \in taken : \A n \in queue \ taken : ~PoppedBefore(n, m)
  /\ \A m \in taken : m.id \notin flying
  /\ Cardinality(taken) <= BatchLimit + 1
  /\ \A m \in taken : m.kind = "ClientInitSync" => taken = {m}
  /\ \/ taken = queue
     \/ Cardinality(taken) = BatchLimit + 1
     \/ \E m \in taken : m.kind = "ClientInitSync"
     \/ \E n \in Tops(queue \ taken) : n.id \in flying

-----------------------------------------------------------------------------
(* merge.  Only ClientUpdateSync messages are mergeable and they are popped *)
(* last and by id, so a message is absorbed by the one popped before it     *)
(* exactly when both are updates, neither is flying and the message that    *)
(* has absorbed so far is below the maximum size.                           *)
Mergeable(msgs) == {m \in msgs : m.kind \in UpdateSync}

FollowsMergeable(msgs, m) ==
  \E p \in Mergeable(msgs) :
    /\ p.id < m.id /\ p.id \notin flying
    /\ \A n \in Mergeable(msgs) : ~(p.id < n.id /\ n.id < m.id)

(* Mutant of Payload: an absorbed message is dropped, not merged.          *)
PayloadUnmerged(msgs, head, limit) == head.ops

(* UpdateSync::merge_payload answers Ok(true) for two document updates and *)
(* Ok(false), changing nothing, for any other pair; merge takes both       *)
(* answers for a success.                                                  *)
Payload(msgs, head, limit) ==
  head.ops \cup
    UNION {n.ops : n \in {x \in Mergeable(msgs) :
                            /\ head.id < x.id /\ x.id < limit
                            /\ head.kind = "Update" /\ x.kind = "Update"}}

NextHead(msgs, heads, head) ==
  LET later == {h.id : h \in {x \in heads : x.id > head.id}}
  IN  IF later = {} THEN 1 + CHOOSE i \in Ids(msgs) : \A j \in Ids(msgs) : j <= i
                    ELSE CHOOSE i \in later : \A j \in later : i <= j

(* heads is the set of updates that stay in the queue as items of their own *)
IsHeads(msgs, heads) ==
  \A m \in Mergeable(msgs) :
    m \in heads <=>
      \/ m.id \in flying
      \/ ~FollowsMergeable(msgs, m)
      \/ \E h \in heads :
           /\ h.id < m.id
           /\ \A k \in heads : ~(h.id < k.id /\ k.id < m.id)
           /\ Cardinality(Payload(msgs, h, m.id)) >= MaximumPayloadSize

Absorb(msgs, heads) ==
  (msgs \ Mergeable(msgs)) \cup
    {[h EXCEPT !.ops = Payload(msgs, h, NextHead(msgs, heads, h))] : h \in heads}

(* The queue merge can leave, when it gets the locks it tries.              *)
Merged(msgs) ==
  IF DisableMergeMessage
    THEN {msgs}
    ELSE {Absorb(msgs, heads) :
            heads \in {H \in SUBSET Mergeable(msgs) : IsHeads(msgs, H)}}

-----------------------------------------------------------------------------
SinkInit ==
  /\ queue = {} /\ flying = {} /\ counter = 0
  /\ sinkState = "Init" /\ paused = FALSE
  /\ notified = TRUE \* CollabSinkRunner::run starts with a notify
  /\ runner = "waiting" /\ batch = {}

NewMsg(kind, ops) == [id |-> counter, kind |-> kind, ops |-> ops]

(* queue_msg, first step: the state is set before the queue is locked.     *)
AnnounceSyncing == sinkState' = "Syncing"

(* queue_msg, second step: push under the queue lock, then signal.         *)
PushMsg(kind, ops) ==
  /\ queue' = queue \cup {NewMsg(kind, ops)}
  /\ counter' = counter + 1
  /\ notified' = TRUE

(* queue_msg as a whole, for callers no other caller can overlap with.     *)
QueueMsg(kind, ops) ==
  /\ AnnounceSyncing
  /\ queue' \in Merged(queue \cup {NewMsg(kind, ops)})
  /\ counter' = counter + 1
  /\ notified' = TRUE

(* Mutant of QueueInitSync: the init sync takes an id without using it up. *)
QueueInitSyncSameId(ops, missed) ==
  /\ AnnounceSyncing
  /\ queue' = (IF "queue" \in missed THEN queue ELSE {})
                \cup {NewMsg("ClientInitSync", ops)}
  /\ flying' = IF "flying" \in missed THEN flying ELSE {}
  /\ counter' = counter
  /\ notified' = TRUE

(* queue_init_sync: clear() empties the queue and the flying set, each only *)
(* if its lock is free (missed = "queue"/"flying" says which was not).      *)
QueueInitSync(ops, missed) ==
  /\ AnnounceSyncing
  /\ queue' = (IF "queue" \in missed THEN queue ELSE {})
                \cup {NewMsg("ClientInitSync", ops)}
  /\ flying' = IF "flying" \in missed THEN flying ELSE {}
  /\ counter' = counter + 1
  /\ notified' = TRUE

CanQueueInitSync == \A m \in Tops(queue) : m.kind # "ClientInitSync"

Pause  == paused' = TRUE /\ sinkState' = "Pause"
Resume == paused' = FALSE \* and a notify

(* Mutant of Acknowledges: any flying id pops the top of the queue.        *)
AcknowledgesAnyFlying(id, top) == id \in flying /\ top \in Tops(queue)

(* validate_response for a response that names message id, by top, the     *)
(* message popped.  A response that does not name the top of the queue is  *)
(* refused and the message pushed back.                                    *)
Acknowledges(id, top) == id \in flying /\ top \in Tops(queue) /\ top.id = id

(* Mutant of AcceptResponse: emptiness is tested before the pop.           *)
AcceptResponseTestsEarly(id, top) ==
  /\ Acknowledges(id, top)
  /\ queue' = queue \ {top}
  /\ flying' = flying \ {id}
  /\ sinkState' = IF queue = {} THEN "Finished" ELSE sinkState

AcceptResponse(id, top) ==
  /\ Acknowledges(id, top)
  /\ queue' = queue \ {top}
  /\ flying' = flying \ {id}
  /\ sinkState' = IF queue' = {} THEN "Finished" ELSE sinkState

RefuseResponse(id) ==
  /\ \/ id \notin flying
     \/ queue = {}
     \/ \E top \in Tops(queue) : top.id # id
  /\ sinkState' = IF id \in flying /\ queue = {} THEN "Finished" ELSE sinkState
  /\ UNCHANGED <<queue, flying>>

-----------------------------------------------------------------------------
(* The runner: takes a signal and processes it, with the delay the signal   *)
(* asks for before it: process_next_msg, then send_immediately.  When a     *)
(* try_lock fails process_next_msg sends the signal again: the step is      *)
(* taken later.                                                             *)
TakeSignal == runner = "waiting" /\ notified

ProcessPaused ==
  /\ TakeSignal /\ paused
  /\ notified' = FALSE
  /\ UNCHANGED <<queue, flying, counter, sinkState, paused, runner, batch>>

ProcessNextMsg ==
  /\ TakeSignal /\ ~paused
  /\ notified' = FALSE
  /\ \E taken \in SUBSET queue :
       /\ IsNextBatch(taken)
       /\ batch' = taken
       /\ flying' = flying \cup Ids(taken)
       /\ runner' = IF taken = {} THEN "waiting" ELSE "sending"
  /\ UNCHANGED <<queue, counter, sinkState, paused>>

SendBatch ==
  /\ runner = "sending"
  /\ runner' = "waiting" /\ batch' = {}
  /\ UNCHANGED <<queue, flying, counter, sinkState, paused, notified>>

(* The websocket channel refused the batch: its ids stop flying, nobody is *)
(* notified.                                                               *)
SendBatchFails ==
  /\ runner = "sending"
  /\ runner' = "waiting" /\ batch' = {}
  /\ flying' = flying \ Ids(batch)
  /\ UNCHANGED <<queue, counter, sinkState, paused, notified>>

(* Mutant of Tick: unacknowledged messages stay flying.                    *)
TickKeepsFlying ==
  /\ notified' = TRUE
  /\ UNCHANGED <<queue, flying, counter, sinkState, paused, runner, batch>>

(* Mutant of Tick: the runner is not told.                                 *)
TickSilent ==
  /\ flying' = {}
  /\ UNCHANGED <<queue, counter, sinkState, paused, notified, runner, batch>>

(* The interval task of CollabSink::new: everything unacknowledged may be  *)
(* sent again.                                                             *)
Tick ==
  /\ flying' = {}
  /\ notified' = TRUE
  /\ UNCHANGED <<queue, counter, sinkState, paused, runner, batch>>

SinkTypeOK ==
  /\ queue \in SUBSET Message
  /\ flying \in SUBSET Nat
  /\ counter \in Nat
  /\ sinkState \in SinkStates
  /\ paused \in BOOLEAN
  /\ notified \in BOOLEAN
  /\ runner \in RunnerStates
  /\ batch \in SUBSET Message

(* Every id in use was issued, and names one message: the queue never holds *)
(* two messages with one id, and the runner's clones are of issued ids.     *)
IdsIssuedOnce ==
  /\ Ids(queue) \cup Ids(batch) \cup flying \subseteq 0 .. (counter - 1)
  /\ \A m, n \in queue : m.id = n.id => m = n
=============================================================================
