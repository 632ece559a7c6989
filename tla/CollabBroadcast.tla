--------------------------- MODULE CollabBroadcast ---------------------------
(***************************************************************************)
(* The clients of one collab group and how they get each other's updates:  *)
(* CollabBroadcast and its subscriptions                                   *)
(* (lib/realtime/src/server/collaborate/group_broadcast.rs), the channels  *)
(* between a subscription and its websocket (ClientStream in               *)
(* rt_server.rs), and the observer of the client                           *)
(* (lib/client-api/src/collab_sync/sync_control.rs).                       *)
(*                                                                         *)
(* A subscription has two tasks: one forwards the broadcasts, from the     *)
(* place its receiver has reached in the channel; the other handles the    *)
(* client's messages.  An init sync renews the subscription; the tasks of  *)
(* the old one go on until they notice the stop signal, and what they sent *)
(* may arrive before or after what the new one sends.  A receiver that is  *)
(* more than Capacity messages behind gets an error, and its task ends.    *)
(*                                                                         *)
(* A document is the set of updates in it.  Acks other than the replies to *)
(* init syncs, resending and merging are in CollabSync; here a connection  *)
(* delivers in order until it is lost.                                     *)
(***************************************************************************)
EXTENDS Naturals, Sequences, FiniteSets

CONSTANTS
  Clients,       \* the clients (CollabOrigin)
  Updates,       \* the edits
  Capacity,      \* buffer_capacity of the broadcast channel
  Trigger,       \* NUMBER_OF_UPDATE_TRIGGER_INIT_SYNC
  MaxInitSyncs,  \* bound on the init syncs of all clients
  None           \* no client

ASSUME BroadcastAssumption ==
  /\ IsFiniteSet(Clients)
  /\ Capacity \in Nat \ {0}
  /\ Trigger \in Nat
  /\ MaxInitSyncs \in Nat
  /\ None \notin Clients

VARIABLES
  doc,      \* the document of the group
  log,      \* what was broadcast; the index is the sequence number
  subs,     \* the subscriptions, by the init sync that made them
  current,  \* the subscription a client has in the group, 0 for none
  conn,     \* the clients that are connected
  up,       \* the messages from each client to the runner of the group
  replica,  \* the document of each client
  seen,     \* broadcast_seq_num of each client
  asking,   \* the init sync in the sink of each client, 0 for none
  inits     \* the number of init syncs so far

serverVars == <<doc, log, subs, current>>
clientVars == <<replica, seen, asking>>
vars == <<serverVars, clientVars, conn, up, inits>>

Ids == 1 .. MaxInitSyncs
Broadcast == [origin : Clients, ops : SUBSET Updates]

InitSync(id, ops) == [type |-> "init", id |-> id, ops |-> ops]
UpdateSync(ops) == [type |-> "update", id |-> 0, ops |-> ops]
ClientMessage == [type : {"init", "update"}, id : 0 .. MaxInitSyncs, ops : SUBSET Updates]

(* A reply carries the updates for the client (sync step 2) and, as a      *)
(* state vector, the document they were taken from (sync step 1).          *)
Reply(id, ops) == [type |-> "reply", seq |-> id, ops |-> ops]
Forwarded(seq) == [type |-> "broadcast", seq |-> seq, ops |-> log[seq].ops]
ServerMessage == [type : {"reply", "broadcast"}, seq : Nat, ops : SUBSET Updates]

Subscription ==
  [client : Clients \cup {None},
   open : BOOLEAN,             \* its websocket is connected
   cursor : Nat,               \* how many broadcasts its receiver has taken
   sinkOn : BOOLEAN,           \* the forwarding task runs
   streamOn : BOOLEAN,         \* the task that handles messages runs
   inbox : Seq(ClientMessage), \* what the latter is to handle
   out : Seq(ServerMessage)]   \* what is on its way to the client
NoSubscription ==
  [client |-> None, open |-> FALSE, cursor |-> 0, sinkOn |-> FALSE, streamOn |-> FALSE,
   inbox |-> <<>>, out |-> <<>>]

Init ==
  /\ doc = {} /\ log = <<>>
  /\ subs = [id \in Ids |-> NoSubscription]
  /\ current = [c \in Clients |-> 0]
  /\ conn = {}
  /\ up = [c \in Clients |-> <<>>]
  /\ replica = [c \in Clients |-> {}]
  /\ seen = [c \in Clients |-> 0]
  /\ asking = [c \in Clients |-> 0]
  /\ inits = 0

-----------------------------------------------------------------------------
(* The clients.                                                            *)
Made == UNION {replica[c] : c \in Clients}

(* receive_local_state.  What is edited without a connection waits for     *)
(* the init sync.                                                          *)
Edit(c, u) ==
  /\ u \notin Made
  /\ replica' = [replica EXCEPT ![c] = @ \cup {u}]
  /\ up' = IF c \in conn THEN [up EXCEPT ![c] = Append(@, UpdateSync({u}))] ELSE up
  /\ UNCHANGED <<serverVars, seen, asking, conn, inits>>

(* Another init sync is within the bound, with one left for every client   *)
(* that is to connect.                                                     *)
Spare == inits + Cardinality(Clients \ conn) < MaxInitSyncs

(* The connection is up: an init sync is sent first.                       *)
Connect(c) ==
  /\ c \notin conn
  /\ inits < MaxInitSyncs
  /\ conn' = conn \cup {c}
  /\ inits' = inits + 1
  /\ asking' = [asking EXCEPT ![c] = inits + 1]
  /\ up' = [up EXCEPT ![c] = <<InitSync(inits + 1, replica[c])>>]
  /\ UNCHANGED <<serverVars, replica, seen>>

(* The connection is lost with all that is under way; the server removes   *)
(* the user and its stream.  What the forwarding task sends from now on    *)
(* reaches nobody; the other one may still handle what it has.             *)
Disconnect(c) ==
  /\ c \in conn
  /\ Spare
  /\ conn' = conn \ {c}
  /\ up' = [up EXCEPT ![c] = <<>>]
  /\ subs' = [id \in Ids |-> 
       IF subs[id].client = c
         THEN [subs[id] EXCEPT !.open = FALSE, !.cursor = 0, !.sinkOn = FALSE, !.out = <<>>]
         ELSE subs[id]]
  /\ current' = [current EXCEPT ![c] = 0]
  /\ UNCHANGED <<doc, log, clientVars, inits>>

Arrived(id, type) == subs[id].out # <<>> /\ Head(subs[id].out).type = type

(* try_init_sync after a gap in the sequence numbers: unless one is queued *)
(* already, or there was one lately (the debounce), an init sync is sent.  *)
TryInitSync(c) ==
  \/ UNCHANGED <<asking, inits, up>>
  \/ /\ asking[c] = 0
     /\ Spare
     /\ inits' = inits + 1
     /\ asking' = [asking EXCEPT ![c] = inits + 1]
     /\ up' = [up EXCEPT ![c] = Append(@, InitSync(inits + 1, replica[c]))]

(* process_message for a broadcast.                                        *)
ReceiveBroadcast(id) ==
  LET c == subs[id].client
      msg == Head(subs[id].out)
  IN  /\ Arrived(id, "broadcast")
      /\ subs' = [subs EXCEPT ![id].out = Tail(@)]
      /\ seen' = [seen EXCEPT ![c] = msg.seq]
      /\ IF msg.seq > seen[c] + Trigger THEN TryInitSync(c)
                                        ELSE UNCHANGED <<asking, inits, up>>
      /\ replica' = [replica EXCEPT ![c] = @ \cup msg.ops]
      /\ UNCHANGED <<doc, log, current, conn>>

(* Mutant of ReceiveReply: the server's sync step 1 is not answered.       *)
ReceiveReplyNoAnswer(id) ==
  LET c == subs[id].client
      msg == Head(subs[id].out)
  IN  /\ Arrived(id, "reply")
      /\ subs' = [subs EXCEPT ![id].out = Tail(@)]
      /\ IF asking[c] # msg.seq
           THEN UNCHANGED <<replica, asking>>
           ELSE /\ asking' = [asking EXCEPT ![c] = 0]
                /\ replica' = [replica EXCEPT ![c] = @ \cup msg.ops]
      /\ UNCHANGED <<doc, log, current, seen, conn, up, inits>>

(* process_message for the reply to an init sync: one that is not the      *)
(* reply to the init sync in the sink is refused; the answer to the        *)
(* server's sync step 1 is what the server has not.  An empty answer,      *)
(* which changes nothing, is left out.                                     *)
ReceiveReply(id) ==
  LET c == subs[id].client
      msg == Head(subs[id].out)
      answer == replica[c] \ msg.ops
  IN  /\ Arrived(id, "reply")
      /\ subs' = [subs EXCEPT ![id].out = Tail(@)]
      /\ IF asking[c] # msg.seq
           THEN UNCHANGED <<replica, asking, up>>
           ELSE /\ asking' = [asking EXCEPT ![c] = 0]
                /\ replica' = [replica EXCEPT ![c] = @ \cup msg.ops]
                /\ up' = IF answer = {} THEN up
                         ELSE [up EXCEPT ![c] = Append(@, UpdateSync(answer))]
      /\ UNCHANGED <<doc, log, current, seen, conn, inits>>

-----------------------------------------------------------------------------
(* The server.                                                             *)

(* CollabBroadcast::subscribe: the receiver gets what is broadcast from    *)
(* now on.                                                                 *)
NewSubscription(c) ==
  [NoSubscription EXCEPT !.client = c, !.open = TRUE, !.cursor = Len(log),
                         !.sinkOn = TRUE, !.streamOn = TRUE]

(* handle_collab_message of the group's runner: an init sync renews the    *)
(* subscription, then the message goes to all the streams of the client's  *)
(* connection.                                                             *)
HandleMessage(c) ==
  LET msg == Head(up[c])
      renewed == IF msg.type = "init" THEN [subs EXCEPT ![msg.id] = NewSubscription(c)]
                                      ELSE subs
  IN  /\ up[c] # <<>>
      /\ up' = [up EXCEPT ![c] = Tail(@)]
      /\ current' = IF msg.type = "init" THEN [current EXCEPT ![c] = msg.id] ELSE current
      /\ subs' = [id \in Ids |->
           IF renewed[id].client = c /\ renewed[id].open /\ renewed[id].streamOn
             THEN [renewed[id] EXCEPT !.inbox = Append(@, msg)]
             ELSE renewed[id]]
      /\ UNCHANGED <<doc, log, clientVars, conn, inits>>

(* handle_client_collab_message: the reply to an init sync ...             *)
StreamReplies(id) ==
  LET msg == Head(subs[id].inbox)
  IN  /\ subs[id].inbox # <<>> /\ msg.type = "init"
      /\ subs' = [subs EXCEPT ![id].inbox = Tail(@),
                              ![id].out = IF subs[id].open THEN Append(@, Reply(msg.id, doc)) ELSE @]
      /\ UNCHANGED <<doc, log, current, clientVars, conn, up, inits>>

(* Mutant of StreamApplies: what could not be applied is broadcast as well. *)
StreamAppliesNothing(id) ==
  LET msg == Head(subs[id].inbox)
  IN  /\ subs[id].inbox # <<>> /\ msg.type = "update"
      /\ subs' = [subs EXCEPT ![id].inbox = Tail(@)]
      /\ log' = IF msg.ops \subseteq doc THEN log
                ELSE Append(log, [origin |-> subs[id].client, ops |-> msg.ops \ doc])
      /\ UNCHANGED <<doc, current, clientVars, conn, up, inits>>

(* ... and an update, which is broadcast if it changes the document.       *)
StreamApplies(id) ==
  LET msg == Head(subs[id].inbox)
  IN  /\ subs[id].inbox # <<>> /\ msg.type = "update"
      /\ subs' = [subs EXCEPT ![id].inbox = Tail(@)]
      /\ doc' = doc \cup msg.ops
      /\ log' = IF msg.ops \subseteq doc THEN log
                ELSE Append(log, [origin |-> subs[id].client, ops |-> msg.ops \ doc])
      /\ UNCHANGED <<current, clientVars, conn, up, inits>>

Lags(id) == Len(log) - subs[id].cursor > Capacity

(* The forwarding task: a client does not get its own updates.             *)
Forward(id) ==
  LET next == subs[id].cursor + 1
  IN  /\ subs[id].sinkOn
      /\ next <= Len(log)
      /\ ~Lags(id)
      /\ subs' = [subs EXCEPT ![id].cursor = next,
                              ![id].out = IF log[next].origin = subs[id].client THEN @
                                          ELSE Append(@, Forwarded(next))]
      /\ UNCHANGED <<doc, log, current, clientVars, conn, up, inits>>

(* Mutant of FallBehind: the task goes on with the oldest broadcast that   *)
(* is still in the channel.                                                *)
FallBehindAndGoOn(id) ==
  /\ subs[id].sinkOn
  /\ Lags(id)
  /\ subs' = [subs EXCEPT ![id].cursor = Len(log) - Capacity]
  /\ UNCHANGED <<doc, log, current, clientVars, conn, up, inits>>

(* A broadcast that the receiver has not taken was overwritten: recv       *)
(* answers Lagged and the task ends.                                       *)
FallBehind(id) ==
  /\ subs[id].sinkOn
  /\ Lags(id)
  /\ subs' = [subs EXCEPT ![id].cursor = 0, ![id].sinkOn = FALSE]
  /\ UNCHANGED <<doc, log, current, clientVars, conn, up, inits>>

Stopped(id) == subs[id].client # None /\ current[subs[id].client] # id

(* Subscription::stop: each task ends when it takes the stop signal.       *)
StopSink(id) ==
  /\ Stopped(id) /\ subs[id].sinkOn
  /\ subs' = [subs EXCEPT ![id].cursor = 0, ![id].sinkOn = FALSE]
  /\ UNCHANGED <<doc, log, current, clientVars, conn, up, inits>>

StopStream(id) ==
  /\ Stopped(id) /\ subs[id].streamOn
  /\ subs' = [subs EXCEPT ![id].inbox = <<>>, ![id].streamOn = FALSE]
  /\ UNCHANGED <<doc, log, current, clientVars, conn, up, inits>>

-----------------------------------------------------------------------------
Receive(id) == ReceiveBroadcast(id) \/ ReceiveReply(id)
Stream(id) == StreamReplies(id) \/ StreamApplies(id)
Sink(id) == Forward(id) \/ FallBehind(id)

Next ==
  \/ \E c \in Clients :
       \/ \E u \in Updates : Edit(c, u)
       \/ Connect(c) \/ Disconnect(c) \/ HandleMessage(c)
  \/ \E id \in Ids :
       Receive(id) \/ Stream(id) \/ Sink(id) \/ StopSink(id) \/ StopStream(id)

Spec == Init /\ [][Next]_vars

(* The tasks of the server and of the clients keep running, and a client   *)
(* that is not connected tries again.                                      *)
Fairness ==
  /\ \A c \in Clients : WF_vars(Connect(c)) /\ WF_vars(HandleMessage(c))
  /\ \A id \in Ids : WF_vars(Receive(id)) /\ WF_vars(Stream(id)) /\ WF_vars(Sink(id))
FairSpec == Spec /\ Fairness
-----------------------------------------------------------------------------
TypeOK ==
  /\ doc \in SUBSET Updates /\ log \in Seq(Broadcast)
  /\ subs \in [Ids -> Subscription]
  /\ \A id \in Ids : subs[id].cursor <= Len(log)
  /\ current \in [Clients -> 0 .. MaxInitSyncs]
  /\ conn \in SUBSET Clients
  /\ up \in [Clients -> Seq(ClientMessage)]
  /\ replica \in [Clients -> SUBSET Updates]
  /\ seen \in [Clients -> Nat]
  /\ asking \in [Clients -> 0 .. MaxInitSyncs]
  /\ inits \in 0 .. MaxInitSyncs

(* The forwarding task of the client's subscription runs.                  *)
Forwarding(c) == current[c] # 0 /\ subs[current[c]].sinkOn

(* Client c has update u, or gets it: with a message under way, from the   *)
(* task that forwards to it, or with the reply to an init sync.            *)
Gets(c, u) ==
  \/ u \in replica[c]
  \/ c \notin conn \/ asking[c] # 0
  \/ \E id \in Ids : subs[id].client = c /\
       \E n \in DOMAIN subs[id].out : u \in subs[id].out[n].ops
  \/ /\ Forwarding(c)
     /\ \E n \in DOMAIN log :
          n > subs[current[c]].cursor /\ log[n].origin # c /\ u \in log[n].ops

(* No update falls between an init sync and the subscription it renews:    *)
(* whatever the old and the new tasks do, a client whose broadcasts are    *)
(* forwarded has, or gets, every update of the document (subscribe is      *)
(* called before the init sync is handled).                                *)
NoUpdateMissed == \A c \in Clients : Forwarding(c) => \A u \in doc : Gets(c, u)

(* When editing and disconnections are over the server has every update,   *)
(* and so has every client whose forwarding task has not fallen behind.    *)
EventuallyConverged ==
  <>[](/\ doc = Made
       /\ \A c \in Clients : Forwarding(c) => replica[c] = doc)
(* The group and its channels implement CollabDocument: a client only gets  *)
(* updates, from whichever of its subscriptions and in whatever order, that *)
(* are in the document, and never after its connection is lost.             *)
Shared == INSTANCE CollabDocument WITH
  Stored <- {}, Replaceable <- FALSE, document <- doc, joined <- conn
ImplementsDocument == Shared!DocumentSpec
=============================================================================
