------------------------------ MODULE CollabSync ------------------------------
(***************************************************************************)
(* One client synchronising one collab object with the server: the sink    *)
(* (CollabSink), the threads of the client that use it (SyncControl,       *)
(* ObserveCollab, SyncPlugin: lib/client-api/src/collab_sync), an          *)
(* unreliable network, and the server's replica of the object (the group   *)
(* and its storage: lib/realtime/src/server/collaborate).                  *)
(*                                                                         *)
(* The threads of the client:                                              *)
(*   - the editor, which holds the collab lock while a local change runs   *)
(*     through the plugin callbacks;                                       *)
(*   - the sink's runner and its interval task;                            *)
(*   - the observer, which handles one server message at a time;           *)
(*   - the listener of the websocket's connection state.                   *)
(* The observer and the listener only try the collab lock; when an edit    *)
(* holds it they go on without it.                                         *)
(*                                                                         *)
(* A document is the set of the edits applied to it.  All the edits are    *)
(* this client's own, so a sync step 2 from the server brings it nothing.  *)
(***************************************************************************)
EXTENDS CollabSink, Sequences

CONSTANTS
  OfflineUpdates,  \* the edits the local document was opened with
  Faults,          \* the faults that may happen
  MaxDisruptions,  \* bound on the occurrences of faults, disconnections,
                   \* crashes and gaps
  PromptNetwork    \* whether a round trip ends before the next interval tick,
                   \* but for the fault slow

(* loss         a message between client and server disappears             *)
(* duplication  a message is delivered more than once                      *)
(* cannotApply  the server cannot apply an update and says so              *)
(* retry        the server gets no transaction, or fails for another       *)
(*              reason, and answers AckCode::Retry or AckCode::Internal    *)
(* load         a group starts with less than what is stored: with nothing *)
(*              (the storage answers with an error), with a snapshot (the  *)
(*              row cannot be decoded) or with what redis kept             *)
(* secondRunner the group is replaced by one that a second runner of the   *)
(*              object loads                                               *)
(* sinkBusy     a try_lock on the sink's queue or flying set fails         *)
(* collabBusy   a try_lock on the collab fails because of a local edit     *)
(* sendError    the websocket channel refuses a batch                      *)
(* slow         the interval ticks in the middle of a round trip           *)
FaultKinds ==
  {"loss", "duplication", "cannotApply", "retry", "load", "secondRunner", "sinkBusy",
   "collabBusy", "sendError", "slow"}

ASSUME SyncAssumption ==
  /\ OfflineUpdates \subseteq Updates
  /\ Faults \subseteq FaultKinds
  /\ MaxDisruptions \in Nat
  /\ PromptNetwork \in BOOLEAN

VARIABLES
  localDoc,     \* the edits in the client's document
  editor,       \* the thread of the local changes: "idle" is without the lock
  editKind,     \* the message kind of the change being queued ...
  editOps,      \* ... and what it carries
  observer,     \* the task of observer_collab_message
  replySv,      \* the server's state vector in the reply being handled
  conn,         \* the websocket connection
  connEvents,   \* connection states not yet handled by the listener
  up, down,     \* messages under way to the server and to the client
  session,      \* what the server knows of the client: "none", "connected",
                \* or "subscribed" to the group
  group,        \* whether the server has a group for the object
  doc,          \* the document of that group
  stored,       \* the document in the server's storage
  versions,     \* all that was ever stored: a snapshot or redis may have it
  disruptions   \* how many disruptions there were

clientVars == <<localDoc, editor, editKind, editOps, observer, replySv>>
connVars == <<conn, connEvents>>
serverVars == <<session, group, doc, stored, versions>>
vars == <<sinkVars, clientVars, connVars, up, down, serverVars, disruptions>>

AckCodes == {"Success", "CannotApplyUpdate", "Retry", "Internal"}
Ack == [id : Nat, code : AckCodes, reply : BOOLEAN, sv : SUBSET Updates]

(* The server's document: that of the group or, without one, what a load   *)
(* that meets no fault gives a new group.                                  *)
ServerDoc == IF group THEN doc ELSE stored

Disrupt ==
  /\ disruptions < MaxDisruptions
  /\ disruptions' = disruptions + 1

Fault(kind) == kind \in Faults /\ Disrupt

(* queue_init_sync; missed is the set of locks that clear() did not get.   *)
StartInitSync ==
  \E missed \in SUBSET {"queue", "flying"} :
    /\ QueueInitSync(localDoc, missed)
    /\ IF missed = {} THEN UNCHANGED disruptions ELSE Fault("sinkBusy")

-----------------------------------------------------------------------------
Init ==
  /\ SinkInit
  /\ localDoc = OfflineUpdates
  /\ editor = "opening" /\ editKind = "Update" /\ editOps = {}
  /\ observer = "receiving" /\ replySv = {}
  /\ conn = "up" /\ connEvents = <<>>
  /\ up = {} /\ down = {}
  /\ session = "connected"
  /\ group = FALSE /\ doc = {}
  /\ stored \in SUBSET OfflineUpdates /\ versions = {{}, stored}
  /\ disruptions = 0

(* SyncPlugin::did_init: an opened collab starts with an init sync.        *)
DidInit ==
  /\ editor = "opening"
  /\ QueueInitSync(localDoc, {})
  /\ editor' = "idle"
  /\ UNCHANGED <<paused, runner, batch, localDoc, editKind, editOps, observer, replySv,
                 connVars, up, down, serverVars, disruptions>>

(* A local change: receive_local_update or receive_local_state is called   *)
(* with the collab locked, and calls queue_msg, whose three steps are      *)
(* BeginEdit, PushEdit and EndEdit.                                        *)
BeginEdit(u) ==
  /\ editor = "idle"
  /\ u \notin localDoc
  /\ localDoc' = localDoc \cup {u}
  /\ editor' = "queueing"
  /\ editKind' = IF u \in Updates THEN "Update" ELSE "Awareness"
  /\ editOps' = {u}
  /\ AnnounceSyncing
  /\ UNCHANGED <<queue, flying, counter, paused, notified, runner, batch, observer,
                 replySv, connVars, up, down, serverVars, disruptions>>

PushEdit ==
  /\ editor = "queueing"
  /\ PushMsg(editKind, editOps)
  /\ editor' = "merging"
  /\ UNCHANGED <<flying, sinkState, paused, runner, batch, localDoc, editKind, editOps,
                 observer, replySv, connVars, up, down, serverVars, disruptions>>

EndEdit ==
  /\ editor = "merging"
  /\ \/ queue' \in Merged(queue) /\ UNCHANGED disruptions
     \/ ~DisableMergeMessage /\ UNCHANGED queue /\ Fault("sinkBusy")
  /\ editor' = "idle" /\ editKind' = "Update" /\ editOps' = {}
  /\ UNCHANGED <<flying, counter, sinkState, paused, notified, runner, batch, localDoc,
                 observer, replySv, connVars, up, down, serverVars>>

-----------------------------------------------------------------------------
RunnerStep ==
  /\ ProcessPaused \/ ProcessNextMsg
  /\ UNCHANGED <<clientVars, connVars, up, down, serverVars, disruptions>>

Send ==
  /\ SendBatch
  /\ up' = up \cup batch
  /\ UNCHANGED <<clientVars, connVars, down, serverVars, disruptions>>

SendFails ==
  /\ Fault("sendError")
  /\ SendBatchFails
  /\ UNCHANGED <<clientVars, connVars, up, down, serverVars>>

(* Nothing that was sent is still on its way or being handled.             *)
RoundTripsDone ==
  /\ up = {} /\ batch = {}
  /\ down = {} \/ observer = "stopped"
  /\ observer # "payload" /\ connEvents = <<>> /\ ~notified

IntervalTick ==
  /\ IF PromptNetwork /\ ~RoundTripsDone THEN Fault("slow") ELSE UNCHANGED disruptions
  /\ Tick
  /\ UNCHANGED <<clientVars, connVars, up, down, serverVars>>

-----------------------------------------------------------------------------
(* The observer, process_message: a response is validated by the sink, then *)
(* its payload is handled, which is the reply to an init sync or nothing.   *)
Takes(a) ==
  /\ observer = "receiving"
  /\ a \in down
  /\ \/ down' = down \ {a} /\ UNCHANGED disruptions
     \/ Fault("duplication") /\ down' = down

ReceiveAccepted(a) ==
  /\ Takes(a)
  /\ a.code # "CannotApplyUpdate"
  /\ \E top \in queue : AcceptResponse(a.id, top)
  /\ observer' = IF a.reply THEN "payload" ELSE "receiving"
  /\ replySv' = a.sv
  /\ notified' = IF a.reply THEN notified ELSE TRUE
  /\ UNCHANGED <<counter, paused, runner, batch, localDoc, editor, editKind, editOps,
                 connVars, up, serverVars>>

ReceiveRefused(a) ==
  /\ Takes(a)
  /\ a.code # "CannotApplyUpdate"
  /\ RefuseResponse(a.id)
  /\ UNCHANGED <<counter, paused, notified, runner, batch, clientVars, connVars, up,
                 serverVars>>

(* observer_collab_message leaves its loop on CannotApplyUpdate.           *)
ReceiveCannotApply(a) ==
  /\ Takes(a)
  /\ a.code = "CannotApplyUpdate"
  /\ observer' = "stopped"
  /\ UNCHANGED <<sinkVars, localDoc, editor, editKind, editOps, replySv, connVars, up,
                 serverVars>>

(* process_payload with the collab locked: the server's sync step 1 is     *)
(* answered by a sync step 2 with all the server has not got.              *)
AnswerSyncStep1 ==
  /\ observer = "payload" /\ editor = "idle"
  /\ QueueMsg("ServerInitSync", (localDoc \cap Updates) \ replySv)
  /\ observer' = "receiving" /\ replySv' = {}
  /\ UNCHANGED <<flying, paused, runner, batch, localDoc, editor, editKind, editOps,
                 connVars, up, down, serverVars, disruptions>>

(* process_payload without the lock: the payload is dropped.               *)
DropSyncStep1 ==
  /\ observer = "payload" /\ editor # "idle"
  /\ "collabBusy" \in Faults
  /\ observer' = "receiving" /\ replySv' = {}
  /\ notified' = TRUE
  /\ UNCHANGED <<queue, flying, counter, sinkState, paused, runner, batch, localDoc,
                 editor, editKind, editOps, connVars, up, down, serverVars,
                 disruptions>>

(* A broadcast whose sequence number shows that others were missed starts  *)
(* an init sync in the middle of the session (try_init_sync).              *)
MissedBroadcast ==
  /\ observer = "receiving" /\ editor = "idle"
  /\ CanQueueInitSync
  /\ Disrupt
  /\ QueueInitSync(localDoc, {})
  /\ UNCHANGED <<paused, runner, batch, clientVars, connVars, up, down, serverVars>>

-----------------------------------------------------------------------------
(* The websocket connection and the listener task of SyncPlugin::new.      *)
Disconnect ==
  /\ conn = "up"
  /\ Disrupt
  /\ conn' = "down"
  /\ connEvents' = Append(connEvents, "Lost")
  /\ UNCHANGED <<sinkVars, clientVars, up, down, serverVars>>

(* Handler<Connect> takes an earlier session of the device out of its       *)
(* groups.                                                                 *)
Reconnect ==
  /\ conn = "down"
  /\ conn' = "up"
  /\ connEvents' = Append(connEvents, "Connected")
  /\ session' = "connected"
  /\ UNCHANGED <<sinkVars, clientVars, up, down, group, doc, stored, versions,
                 disruptions>>

(* Mutant of ListenLost: later connection states are skipped with the one  *)
(* that is handled.                                                        *)
ListenLostSkipsLater ==
  /\ connEvents # <<>> /\ Head(connEvents) = "Lost"
  /\ connEvents' = <<>>
  /\ Pause
  /\ UNCHANGED <<queue, flying, counter, notified, runner, batch, clientVars, conn, up,
                 down, serverVars, disruptions>>

ListenLost ==
  /\ connEvents # <<>> /\ Head(connEvents) = "Lost"
  /\ connEvents' = Tail(connEvents)
  /\ Pause
  /\ UNCHANGED <<queue, flying, counter, notified, runner, batch, clientVars, conn, up,
                 down, serverVars, disruptions>>

ListenConnected ==
  /\ connEvents # <<>> /\ Head(connEvents) = "Connected"
  /\ editor = "idle"
  /\ connEvents' = Tail(connEvents)
  /\ Resume
  /\ StartInitSync
  /\ UNCHANGED <<runner, batch, clientVars, conn, up, down, serverVars>>

(* The collab is locked by an edit: the listener does nothing.             *)
ListenConnectedBusy ==
  /\ connEvents # <<>> /\ Head(connEvents) = "Connected"
  /\ editor # "idle"
  /\ "collabBusy" \in Faults
  /\ connEvents' = Tail(connEvents)
  /\ UNCHANGED <<sinkVars, clientVars, conn, up, down, serverVars, disruptions>>

-----------------------------------------------------------------------------
(* The server: GroupCommandRunner::handle_collab_message and, for a        *)
(* subscriber, handle_client_collab_message.                               *)
Arrives(m) ==
  /\ m \in up
  /\ \/ up' = up \ {m} /\ UNCHANGED disruptions
     \/ Fault("duplication") /\ up' = up

Answer(m, code, reply, sv) ==
  down' = down \cup {[id |-> m.id, code |-> code, reply |-> reply, sv |-> sv]}

(* A message subscribes its sender, if it is not, to the group it finds.   *)
Subscribe == session # "none" /\ session' = "subscribed"

(* Mutant of Welcome: the reply speaks of what is stored.                  *)
WelcomeAsStored(m, loaded) ==
  /\ m.kind = "ClientInitSync"
  /\ Subscribe
  /\ group' = TRUE
  /\ doc' = loaded
  /\ Answer(m, "Success", TRUE, IF group THEN loaded ELSE stored)
  /\ UNCHANGED <<sinkVars, clientVars, connVars, stored, versions>>

(* The reply to an init sync asks the client for what the group lacks.     *)
Welcome(m, loaded) ==
  /\ m.kind = "ClientInitSync"
  /\ Subscribe
  /\ group' = TRUE
  /\ doc' = loaded
  /\ Answer(m, "Success", TRUE, loaded)
  /\ UNCHANGED <<sinkVars, clientVars, connVars, stored, versions>>

(* Mutant of ServerInitSync: the document is loaded although there is one. *)
ServerInitSyncReloads(m) == Arrives(m) /\ Welcome(m, stored)

ServerInitSync(m) == Arrives(m) /\ Welcome(m, ServerDoc)

(* StoragePlugin::init: an error of the storage leaves the document empty, *)
(* an undecodable one is replaced by a snapshot, and redis, which is read  *)
(* first, may have an older one.                                           *)
ServerLoadsLess(m) ==
  /\ ~group
  /\ Fault("load")
  /\ m \in up /\ up' = up \ {m}
  /\ \E loaded \in versions : Welcome(m, loaded)

(* AllGroup::create_group of another runner of the object, which found no  *)
(* group when it started: its insert replaces the group, unflushed.        *)
ServerCreatesAgain(m) ==
  /\ group
  /\ Fault("secondRunner")
  /\ m \in up /\ up' = up \ {m}
  /\ \E loaded \in versions : Welcome(m, loaded)

ServerApply(m) ==
  /\ m.kind # "ClientInitSync" /\ group
  /\ Arrives(m)
  /\ Subscribe
  /\ doc' = doc \cup (m.ops \cap Updates)
  /\ Answer(m, "Success", FALSE, {})
  /\ UNCHANGED <<sinkVars, clientVars, connVars, group, stored, versions>>

ServerCannotApply(m) ==
  /\ group
  /\ m \in up /\ up' = up \ {m}
  /\ Subscribe
  /\ \/ m.kind # "ClientInitSync" /\ Fault("cannotApply")
        /\ Answer(m, "CannotApplyUpdate", FALSE, {})
     \/ /\ Fault("retry")
        /\ \E code \in {"Retry", "Internal"} : Answer(m, code, FALSE, {})
  /\ UNCHANGED <<sinkVars, clientVars, connVars, group, doc, stored, versions>>

(* Without a stream for the client nothing is handled, and without a group *)
(* only an init sync.                                                      *)
ServerDrops(m) ==
  /\ session = "none" \/ (m.kind # "ClientInitSync" /\ ~group)
  /\ Arrives(m)
  /\ UNCHANGED <<sinkVars, clientVars, connVars, down, serverVars>>

(* Handler<Disconnect>, some time after the connection is gone.            *)
ServerForgets ==
  /\ conn = "down" /\ session # "none"
  /\ session' = "none"
  /\ UNCHANGED <<sinkVars, clientVars, connVars, up, down, group, doc, stored, versions,
                 disruptions>>

(* AllGroup::tick and remove_group: a group without subscribers is flushed *)
(* and dropped.  The flush may fail.                                       *)
RemoveGroup ==
  /\ group /\ session # "subscribed"
  /\ group' = FALSE /\ doc' = {}
  /\ stored' \in {doc, stored}
  /\ versions' = versions \cup {doc}
  /\ UNCHANGED <<sinkVars, clientVars, connVars, up, down, session, disruptions>>

ServerCrash ==
  /\ group
  /\ Disrupt
  /\ group' = FALSE /\ doc' = {} /\ session' = "none"
  /\ conn' = "down"
  /\ connEvents' = IF conn = "up" THEN Append(connEvents, "Lost") ELSE connEvents
  /\ UNCHANGED <<sinkVars, clientVars, up, down, stored, versions>>

Lose ==
  /\ Fault("loss")
  /\ \/ \E m \in up : up' = up \ {m} /\ down' = down
     \/ \E a \in down : down' = down \ {a} /\ up' = up
  /\ UNCHANGED <<sinkVars, clientVars, connVars, serverVars>>

-----------------------------------------------------------------------------
Edit == \E u \in Edits : BeginEdit(u)
Observe ==
  \E a \in down : ReceiveAccepted(a) \/ ReceiveRefused(a) \/ ReceiveCannotApply(a)
Accept == \E a \in down : ReceiveAccepted(a)
Serve ==
  \E m \in up : ServerInitSync(m) \/ ServerApply(m) \/ ServerDrops(m)
Listen == ListenLost \/ ListenConnected \/ ListenConnectedBusy

Next ==
  \/ DidInit \/ Edit \/ PushEdit \/ EndEdit
  \/ RunnerStep \/ Send \/ SendFails \/ IntervalTick
  \/ Observe \/ AnswerSyncStep1 \/ DropSyncStep1 \/ MissedBroadcast
  \/ Disconnect \/ Reconnect \/ Listen
  \/ Serve
  \/ \E m \in up :
       ServerCannotApply(m) \/ ServerLoadsLess(m) \/ ServerCreatesAgain(m)
  \/ ServerForgets \/ RemoveGroup \/ ServerCrash \/ Lose

(* Every task of the client and of the server keeps running; a connection  *)
(* that is down comes up again.  Edits and disruptions need not happen.    *)
(* What they guarantee together still depends on PromptNetwork: a tick in  *)
(* every round trip, between the sending of a message and its response,    *)
(* would make the sink refuse every response.                              *)
(* Strong fairness of Accept is about ties: of two server init syncs, which *)
(* the code's Ord calls Equal, the heap does not pop for ever the one whose *)
(* response is not the next.                                                *)
Fairness ==
  /\ WF_vars(DidInit) /\ WF_vars(PushEdit) /\ WF_vars(EndEdit)
  /\ WF_vars(RunnerStep) /\ WF_vars(Send) /\ WF_vars(IntervalTick)
  /\ WF_vars(Observe) /\ SF_vars(Accept) /\ WF_vars(AnswerSyncStep1)
  /\ WF_vars(Reconnect) /\ WF_vars(Listen) /\ WF_vars(Serve)

Spec == Init /\ [][Next]_vars
FairSpec == Spec /\ Fairness
-----------------------------------------------------------------------------
TypeOK ==
  /\ SinkTypeOK
  /\ localDoc \in SUBSET Edits
  /\ editor \in {"opening", "idle", "queueing", "merging"}
  /\ editKind \in UpdateSync /\ editOps \in SUBSET Edits
  /\ observer \in {"receiving", "payload", "stopped"}
  /\ replySv \in SUBSET Updates
  /\ conn \in {"up", "down"}
  /\ connEvents \in Seq({"Connected", "Lost"})
  /\ up \in SUBSET Message /\ down \in SUBSET Ack
  /\ session \in {"none", "connected", "subscribed"}
  /\ group \in BOOLEAN
  /\ doc \in SUBSET Updates /\ stored \in SUBSET Updates
  /\ versions \in SUBSET SUBSET Updates
  /\ disruptions \in 0 .. MaxDisruptions

(* A connection that came up, or will, makes the listener start an init    *)
(* sync.                                                                   *)
ReconnectPending == conn = "down" \/ connEvents # <<>>

(* Message m, once the server has handled it and the client has handled    *)
(* the answer, brings edit u to the server.                                *)
Carries(m, u) == m.kind = "ClientInitSync" \/ u \in m.ops

(* No local document update is forgotten: at every moment an update of the *)
(* local document is in the server's document, or the client still has     *)
(* something to do that will bring it there (a queued message, a change    *)
(* being queued, a reply being answered, an init sync that a connection    *)
(* event will start).  This is the purpose of the sink: messages leave the *)
(* queue (merge, clear, validate_response) only when that is harmless.     *)
NoLostUpdate ==
  \A u \in (localDoc \cap Updates) \ ServerDoc :
    \/ ReconnectPending
    \/ editor = "opening"
    \/ editor = "queueing" /\ u \in editOps
    \/ observer = "payload" /\ u \notin replySv
    \/ \E m \in queue : Carries(m, u)

(* The same for a network that loses nothing: what was sent counts too.    *)
(* Merging then is harmless even when it changes a message that is already *)
(* on its way (Tick, then merge, then the response to the first sending).  *)
NothingVanishes ==
  \A u \in (localDoc \cap Updates) \ ServerDoc :
    \/ ReconnectPending
    \/ editor = "opening"
    \/ editor = "queueing" /\ u \in editOps
    \/ observer = "payload" /\ u \notin replySv
    \/ \E m \in queue \cup batch \cup up : Carries(m, u)

(* Once the listener has seen that the websocket is connected the sink is  *)
(* not left paused (the Connected branch of SyncPlugin::new).              *)
ConnectedResumes == conn = "up" /\ connEvents = <<>> => ~paused

(* When edits and disruptions are over, the server gets and keeps every    *)
(* update of the client: the resends of the interval task, the init sync   *)
(* after a reconnection and the answers to the server's sync step 1        *)
(* together lose nothing and do not stop, unless the server refused an     *)
(* update, which ends the observer's loop.                                 *)
EventuallySynced ==
  <>[](observer = "stopped" \/ localDoc \cap Updates \subseteq ServerDoc)

(* ... and the sink reports it: the queue drains and the last state sent   *)
(* to the observers of the sink is Finished.                               *)
Drained == queue = {} /\ sinkState = "Finished"
EventuallyFinished == <>[](observer = "stopped" \/ Drained)

(* The same when the collab lock may be missed, updates may be merged away *)
(* and the server may answer Retry: whatever becomes of the updates, the   *)
(* queue drains and the sink says so, unless the listener has left the     *)
(* sink paused.                                                            *)
EventuallyDrained == <>[](paused \/ Drained)

(* As long as a subscription lasts the server's document does not go back, *)
(* whatever is resent, merged, duplicated or delayed, by any step but the  *)
(* replacement of the group by a second runner's (handle_collab_message,   *)
(* AllGroup::tick, AllGroup::create_group).                                *)
SubscribedServerKeeps ==
  [][session = "subscribed" /\ session' = "subscribed" =>
       \/ ServerDoc \subseteq ServerDoc'
       \/ \E m \in up : ServerCreatesAgain(m)]_vars

(* The client and its server implement CollabDocument: whatever is resent,  *)
(* merged, duplicated or delayed, the server has only what the client made, *)
(* and it only loses some of that when the client is not subscribed: when a *)
(* group is removed or crashes, when a group is loaded for the client or,   *)
(* with a second runner, when it is loaded again.                           *)
TheClient == "client"
Shared == INSTANCE CollabDocument WITH
  Clients <- {TheClient}, Stored <- OfflineUpdates, Replaceable <- "secondRunner" \in Faults,
  replica <- [c \in {TheClient} |-> localDoc \cap Updates],
  document <- ServerDoc, joined <- {c \in {TheClient} : session = "subscribed"}
ImplementsDocument == Shared!DocumentSpec
=============================================================================
