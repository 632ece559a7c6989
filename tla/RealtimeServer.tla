--------------------------- MODULE RealtimeServer ---------------------------
(***************************************************************************)
(* The server's bookkeeping of websocket connections and of who subscribes *)
(* to which collab group: the RealtimeServer actor, one RealtimeClient     *)
(* actor per websocket (lib/realtime/src/server/rt_server.rs,              *)
(* client/rt_client.rs, src/api/ws.rs), the GroupCommandRunner task of     *)
(* each object and the groups (lib/realtime/src/server/collaborate).       *)
(*                                                                         *)
(* A handler of the actor has no suspension point that waits for another   *)
(* task, so it is one step.  A runner waits for the storage while it       *)
(* creates a group: everything else may happen in between.  The periodic   *)
(* tick forgets the sender of a removed group's runner, which goes on with *)
(* the commands it was sent; the next message starts another runner for    *)
(* the same object.  All these tasks share a thread.                       *)
(*                                                                         *)
(* A user is what RealtimeUserImpl compares: the (user id, device id) pair *)
(* and the second the connection was opened in, so two connections of one  *)
(* second are the same user.  What the messages carry is left out.         *)
(***************************************************************************)
EXTENDS Integers, Sequences

CONSTANTS
  Devices,      \* the (user id, device id) pairs
  Objects,      \* the collab objects
  MaxSeconds,   \* bound on the clock
  MaxSessions,  \* bound on the websockets opened
  MaxRunners,   \* bound on the runners started for one object
  MaxCommands,  \* bound on the commands waiting for one runner
  None          \* no user

ASSUME ServerAssumption ==
  /\ MaxSeconds \in Nat
  /\ MaxSessions \in Nat
  /\ MaxRunners \in Nat \ {0}
  /\ MaxCommands \in Nat
  /\ None \notin [device : Devices, second : 0 .. MaxSeconds]

VARIABLES
  clock,       \* chrono::Utc::now().timestamp()
  sockets,     \* the websockets opened so far; the index is the session id
  sessionOf,   \* session_id_by_user, 0 for no entry
  userOf,      \* user_by_device
  stream,      \* client_stream_by_user: the session whose socket it writes to, or 0
  editing,     \* editing_collab_by_user
  groups,      \* group_by_object_id: the objects that have a group
  subscriber,  \* the subscribers of those groups: the session each writes to, or 0
  current,     \* group_sender_by_object_id: the runner that gets new commands
  queue,       \* the commands waiting for each runner
  creating,    \* the user for whom a runner is creating a group
  deaf,        \* the users whose stream no task receives from any more
  hung         \* whether the thread of the server waits for itself

streamVars == <<stream, deaf>>
groupVars == <<groups, current, queue, creating, hung>>
vars == <<clock, sockets, sessionOf, userOf, streamVars, editing, subscriber, groupVars>>

User == [device : Devices, second : 0 .. MaxSeconds]
Sessions == 1 .. MaxSessions
Runners == 1 .. MaxRunners
Command == [user : User, init : BOOLEAN]

(* A websocket is "connecting" until its Connect is handled.  "kicked" is  *)
(* one that was sent DuplicateConnection.  farewells is the number of      *)
(* Disconnect messages on their way to the server.                         *)
Phases == {"connecting", "open", "kicked", "closed"}
Socket == [user : User, phase : Phases, farewells : 0 .. 2]

Init ==
  /\ clock = 0 /\ sockets = <<>>
  /\ sessionOf = [u \in User |-> 0]
  /\ userOf = [d \in Devices |-> None]
  /\ stream = [u \in User |-> 0]
  /\ editing = [u \in User |-> {}]
  /\ groups = {}
  /\ subscriber = [o \in Objects |-> [u \in User |-> 0]]
  /\ current = [o \in Objects |-> 1]
  /\ queue = [o \in Objects |-> [r \in Runners |-> <<>>]]
  /\ creating = [o \in Objects |-> [r \in Runners |-> None]]
  /\ deaf = {} /\ hung = FALSE

-----------------------------------------------------------------------------
ClockTick ==
  /\ clock < MaxSeconds
  /\ clock' = clock + 1
  /\ UNCHANGED <<sockets, sessionOf, userOf, streamVars, editing, subscriber, groupVars>>

(* start_connect: a RealtimeClient actor is started and sends Connect.     *)
StartConnect(d) ==
  /\ Len(sockets) < MaxSessions
  /\ sockets' = Append(sockets, [user |-> [device |-> d, second |-> clock],
                                 phase |-> "connecting", farewells |-> 0])
  /\ UNCHANGED <<clock, sessionOf, userOf, streamVars, editing, subscriber, groupVars>>

(* remove_user: the user leaves the groups it is known to edit.            *)
Unsubscribed(u) ==
  [o \in Objects |->
     IF o \in editing[u] THEN [subscriber[o] EXCEPT ![u] = 0] ELSE subscriber[o]]

(* Mutant of HandleConnect: the stream of the old connection is kept.      *)
HandleConnectKeepsOld(s) ==
  LET user == sockets[s].user
      old  == userOf[user.device]
  IN  /\ ~hung /\ sockets[s].phase = "connecting"
      /\ sessionOf' = [sessionOf EXCEPT ![user] = s]
      /\ userOf' = [userOf EXCEPT ![user.device] = user]
      /\ sockets' = [sockets EXCEPT ![s].phase = "open"]
      /\ stream' = [stream EXCEPT ![user] = s] /\ deaf' = deaf \ {user}
      /\ IF old = None THEN UNCHANGED <<editing, subscriber>>
                       ELSE /\ editing' = [editing EXCEPT ![old] = {}]
                            /\ subscriber' = Unsubscribed(old)
      /\ UNCHANGED <<clock, groupVars>>

(* Mutant of HandleConnect: the old stream is removed after the insertion, *)
(* although the old and the new user may be equal.                         *)
HandleConnectRemovesLast(s) ==
  LET user == sockets[s].user
      old  == userOf[user.device]
  IN  /\ ~hung /\ sockets[s].phase = "connecting"
      /\ sessionOf' = [sessionOf EXCEPT ![user] = s]
      /\ userOf' = [userOf EXCEPT ![user.device] = user]
      /\ sockets' = [sockets EXCEPT ![s].phase = "open"]
      /\ deaf' = deaf \ {old, user}
      /\ IF old = None
           THEN /\ stream' = [stream EXCEPT ![user] = s]
                /\ UNCHANGED <<editing, subscriber>>
           ELSE /\ stream' = [stream EXCEPT ![user] = s, ![old] = 0]
                /\ editing' = [editing EXCEPT ![old] = {}]
                /\ subscriber' = Unsubscribed(old)
      /\ UNCHANGED <<clock, groupVars>>

(* Handler<Connect>: the connection that the device had is told to close,  *)
(* and leaves its groups, before the new stream is inserted.               *)
HandleConnect(s) ==
  LET user == sockets[s].user
      old  == userOf[user.device]
      opened == [sockets EXCEPT ![s].phase = "open"]
  IN  /\ ~hung /\ sockets[s].phase = "connecting"
      /\ sessionOf' = [sessionOf EXCEPT ![user] = s]
      /\ userOf' = [userOf EXCEPT ![user.device] = user]
      /\ deaf' = deaf \ {old, user}
      /\ IF old = None
           THEN /\ sockets' = opened
                /\ stream' = [stream EXCEPT ![user] = s]
                /\ UNCHANGED <<editing, subscriber>>
           ELSE /\ sockets' = IF stream[old] # 0 /\ sockets[stream[old]].phase = "open"
                                THEN [opened EXCEPT ![stream[old]].phase = "kicked"]
                                ELSE opened
                /\ stream' = [stream EXCEPT ![old] = 0, ![user] = s]
                /\ editing' = [editing EXCEPT ![old] = {}]
                /\ subscriber' = Unsubscribed(old)
      /\ UNCHANGED <<clock, groupVars>>

(* Mutant of Stop: no Disconnect is sent.                                  *)
StopSilently(s) ==
  /\ sockets[s].phase \in {"open", "kicked"}
  /\ sockets' = [sockets EXCEPT ![s].phase = "closed"]
  /\ UNCHANGED <<clock, sessionOf, userOf, streamVars, editing, subscriber, groupVars>>

(* The actor of a websocket stops: the client closed it, it was kicked, or  *)
(* its heartbeat timed out, in which case both hb and stopping send         *)
(* Disconnect.                                                              *)
Stop(s) ==
  /\ sockets[s].phase \in {"open", "kicked"}
  /\ \E n \in {1, 2} :
       sockets' = [sockets EXCEPT ![s].phase = "closed", ![s].farewells = n]
  /\ UNCHANGED <<clock, sessionOf, userOf, streamVars, editing, subscriber, groupVars>>

(* Mutant of HandleDisconnect: the session id is not compared.             *)
HandleDisconnectAnySession(s) ==
  LET user == sockets[s].user
  IN  /\ ~hung /\ sockets[s].farewells > 0
      /\ sockets' = [sockets EXCEPT ![s].farewells = @ - 1]
      /\ subscriber' = Unsubscribed(user)
      /\ editing' = [editing EXCEPT ![user] = {}]
      /\ stream' = [stream EXCEPT ![user] = 0] /\ deaf' = deaf \ {user}
      /\ UNCHANGED <<clock, sessionOf, userOf, groupVars>>

(* Mutant of HandleDisconnect: the stream is not removed.                  *)
HandleDisconnectKeepsStream(s) ==
  LET user == sockets[s].user
  IN  /\ ~hung /\ sockets[s].farewells > 0
      /\ sockets' = [sockets EXCEPT ![s].farewells = @ - 1]
      /\ IF sessionOf[user] # s
           THEN UNCHANGED <<editing, subscriber>>
           ELSE /\ subscriber' = Unsubscribed(user)
                /\ editing' = [editing EXCEPT ![user] = {}]
      /\ UNCHANGED <<clock, sessionOf, userOf, streamVars, groupVars>>

(* Handler<Disconnect>: ignored when the user has a later session.          *)
HandleDisconnect(s) ==
  LET user == sockets[s].user
  IN  /\ ~hung /\ sockets[s].farewells > 0
      /\ sockets' = [sockets EXCEPT ![s].farewells = @ - 1]
      /\ IF sessionOf[user] # s
           THEN UNCHANGED <<streamVars, editing, subscriber>>
           ELSE /\ subscriber' = Unsubscribed(user)
                /\ editing' = [editing EXCEPT ![user] = {}]
                /\ stream' = [stream EXCEPT ![user] = 0] /\ deaf' = deaf \ {user}
      /\ UNCHANGED <<clock, sessionOf, userOf, groupVars>>

-----------------------------------------------------------------------------
(* process_client_collab_message: the command goes to the object's runner,  *)
(* which is started if there is none.                                       *)
SendCommand(u, o, init) ==
  /\ ~hung /\ Len(queue[o][current[o]]) < MaxCommands
  /\ queue' = [queue EXCEPT ![o][current[o]] = Append(@, [user |-> u, init |-> init])]
  /\ UNCHANGED <<clock, sockets, sessionOf, userOf, streamVars, editing, subscriber, groups,
                 current, creating, hung>>

(* Handler<ClientMessage>, from a websocket that is not closed.             *)
HandleClientMessage(s, o, init) ==
  /\ sockets[s].phase \in {"open", "kicked"}
  /\ SendCommand(sockets[s].user, o, init)

(* Handler<ClientStreamMessage>, from an HTTP request of the device.        *)
HandleStreamMessage(d, o, init) ==
  /\ userOf[d] # None
  /\ SendCommand(userOf[d], o, init)

(* Mutant of Subscribe: editing_collab_by_user is not updated.             *)
SubscribeUntracked(u, o, subs) ==
  /\ subscriber' = [subscriber EXCEPT
       ![o] = [v \in User |-> IF v = u THEN stream[u]
                              ELSE IF v.device = u.device THEN 0 ELSE subs[v]]]
  /\ UNCHANGED <<editing, deaf>>

(* A task of client_channel, one for each subscription, receives from the   *)
(* stream.  It ends without a word when it is 1000 messages behind; here    *)
(* the last of them does.                                                   *)
LagBehind(u) ==
  /\ stream[u] # 0 /\ editing[u] # {} /\ u \notin deaf
  /\ deaf' = deaf \cup {u}
  /\ UNCHANGED <<clock, sockets, sessionOf, userOf, stream, editing, subscriber, groupVars>>

(* SubscribeGroup::run and CollabGroup::subscribe: a user with a stream     *)
(* subscribes, in place of an earlier user of its device, and a new task    *)
(* receives from its stream.                                                *)
Subscribe(u, o, subs) ==
  IF stream[u] = 0 \/ subs[u] # 0
    THEN /\ subscriber' = [subscriber EXCEPT ![o] = subs]
         /\ UNCHANGED <<editing, deaf>>
    ELSE /\ subscriber' = [subscriber EXCEPT
              ![o] = [v \in User |-> IF v = u THEN stream[u]
                                     ELSE IF v.device = u.device THEN 0 ELSE subs[v]]]
         /\ editing' = [editing EXCEPT ![u] = @ \cup {o}]
         /\ deaf' = deaf \ {u}

(* The message is sent to the tasks that receive from the client's stream.  *)
(* If there is none, the stream is removed from the map while a reference   *)
(* into the map is held, which DashMap waits for: the thread hangs.         *)
broadcast_client_collab_message(u) == hung' = (u \in deaf')

Runnable(o, r) == ~hung /\ creating[o][r] = None /\ queue[o][r] # <<>>

(* GroupCommandRunner::handle_collab_message.                               *)
(* The user has no stream: the command is ignored.                          *)
HandleUnconnected(o, r) ==
  /\ Runnable(o, r)
  /\ stream[Head(queue[o][r]).user] = 0
  /\ queue' = [queue EXCEPT ![o][r] = Tail(@)]
  /\ UNCHANGED <<clock, sockets, sessionOf, userOf, streamVars, editing, subscriber, groups,
                 current, creating, hung>>

(* There is a group: an init sync renews the subscription.                  *)
HandleInGroup(o, r) ==
  LET cmd == Head(queue[o][r])
  IN  /\ Runnable(o, r)
      /\ stream[cmd.user] # 0
      /\ o \in groups
      /\ queue' = [queue EXCEPT ![o][r] = Tail(@)]
      /\ Subscribe(cmd.user, o, IF cmd.init THEN [subscriber[o] EXCEPT ![cmd.user] = 0]
                                            ELSE subscriber[o])
      /\ broadcast_client_collab_message(cmd.user)
      /\ UNCHANGED <<clock, sockets, sessionOf, userOf, stream, groups, current, creating>>

(* There is no group: an init sync creates one, which reads the storage.    *)
StartCreateGroup(o, r) ==
  LET cmd == Head(queue[o][r])
  IN  /\ Runnable(o, r)
      /\ stream[cmd.user] # 0
      /\ o \notin groups
      /\ queue' = [queue EXCEPT ![o][r] = Tail(@)]
      /\ creating' = IF cmd.init THEN [creating EXCEPT ![o][r] = cmd.user] ELSE creating
      /\ UNCHANGED <<clock, sockets, sessionOf, userOf, streamVars, editing, subscriber,
                     groups, current, hung>>

(* The group was loaded: it is inserted, in place of any other, and the     *)
(* user subscribes if it still has a stream.                                *)
FinishCreateGroup(o, r) ==
  /\ ~hung /\ creating[o][r] # None
  /\ groups' = groups \cup {o}
  /\ Subscribe(creating[o][r], o, [u \in User |-> 0])
  /\ broadcast_client_collab_message(creating[o][r])
  /\ creating' = [creating EXCEPT ![o][r] = None]
  /\ UNCHANGED <<clock, sockets, sessionOf, userOf, stream, current, queue>>

(* AllGroup::tick and the loop that calls it: a group without subscribers   *)
(* is removed once it is old enough, and the sender of its runner with it.  *)
RemoveInactiveGroup(o) ==
  /\ ~hung /\ o \in groups
  /\ \A u \in User : subscriber[o][u] = 0
  /\ current[o] < MaxRunners
  /\ groups' = groups \ {o}
  /\ current' = [current EXCEPT ![o] = @ + 1]
  /\ UNCHANGED <<clock, sockets, sessionOf, userOf, streamVars, editing, subscriber, queue,
                 creating, hung>>

-----------------------------------------------------------------------------
Connection ==
  \/ \E d \in Devices : StartConnect(d)
  \/ \E s \in DOMAIN sockets : HandleConnect(s) \/ Stop(s) \/ HandleDisconnect(s)

Receive ==
  \E o \in Objects, init \in BOOLEAN :
    \/ \E s \in DOMAIN sockets : HandleClientMessage(s, o, init)
    \/ \E d \in Devices : HandleStreamMessage(d, o, init)

Run(o, r) ==
  \/ HandleUnconnected(o, r) \/ HandleInGroup(o, r)
  \/ StartCreateGroup(o, r) \/ FinishCreateGroup(o, r)

Next ==
  \/ ClockTick \/ Connection \/ Receive
  \/ \E u \in User : LagBehind(u)
  \/ \E o \in Objects : RemoveInactiveGroup(o) \/ \E r \in Runners : Run(o, r)

Spec == Init /\ [][Next]_vars

(* The actor's mailbox and the runners are served; a kicked websocket stops. *)
Serving ==
  \E s \in DOMAIN sockets :
    \/ HandleConnect(s) \/ HandleDisconnect(s)
    \/ sockets[s].phase = "kicked" /\ Stop(s)
Fairness ==
  /\ WF_vars(Serving)
  /\ \A o \in Objects, r \in Runners : WF_vars(Run(o, r))
FairSpec == Spec /\ Fairness
-----------------------------------------------------------------------------
TypeOK ==
  /\ clock \in 0 .. MaxSeconds
  /\ sockets \in Seq(Socket) /\ Len(sockets) <= MaxSessions
  /\ sessionOf \in [User -> 0 .. Len(sockets)]
  /\ userOf \in [Devices -> User \cup {None}]
  /\ stream \in [User -> 0 .. Len(sockets)]
  /\ editing \in [User -> SUBSET Objects]
  /\ groups \in SUBSET Objects
  /\ subscriber \in [Objects -> [User -> 0 .. Len(sockets)]]
  /\ current \in [Objects -> Runners]
  /\ queue \in [Objects -> [Runners -> Seq(Command)]]
  /\ creating \in [Objects -> [Runners -> User \cup {None}]]
  /\ deaf \subseteq User /\ hung \in BOOLEAN

(* Only the latest connection of a device has a stream, and it is that of  *)
(* the user's latest session (Handler<Connect>: "User with the same id and *)
(* same device will be replaced with the new connection").                 *)
OneStreamPerDevice ==
  \A u \in User : stream[u] # 0 => userOf[u.device] = u /\ sessionOf[u] = stream[u]

(* A websocket that was opened and neither stopped nor told to close has   *)
(* its stream: a late or repeated Disconnect of an earlier session, even   *)
(* one of the same second, does not cut off its successor.                 *)
OpenIsServed ==
  \A s \in DOMAIN sockets : sockets[s].phase = "open" => stream[sockets[s].user] = s

(* A subscriber of a group writes to the stream its user has now.  One that *)
(* did not would get every update for nobody, and the group would never be  *)
(* without subscribers: it is only flushed when it is.                      *)
NoGhostSubscriber ==
  \A o \in Objects, u \in User :
    subscriber[o][u] # 0 => o \in groups /\ stream[u] = subscriber[o][u]

(* A stream does not outlive its websocket: if the websocket has stopped a  *)
(* Disconnect is still to come.                                             *)
StreamsEnd ==
  \A u \in User :
    stream[u] # 0 =>
      LET socket == sockets[stream[u]]
      IN  socket.user = u /\ (socket.phase = "closed" => socket.farewells > 0)

(* When all the websockets have closed for good every group loses its last *)
(* subscriber, so that the periodic tick can flush and remove it, unless   *)
(* the server hangs (broadcast_client_collab_message).                     *)
AllClosed == \A s \in DOMAIN sockets : sockets[s].phase = "closed"
NoSubscriber == \A o \in Objects, u \in User : subscriber[o][u] = 0
GroupsBecomeInactive == <>[]AllClosed => <>[](hung \/ NoSubscriber)

(* A user whose Disconnect arrives leaves its groups (Handler<Disconnect>:  *)
(* "Removes the user from the collaboration groups and client streams, if   *)
(* applicable").                                                            *)
DisconnectedLeave == <>[]AllClosed => <>[]NoSubscriber
-----------------------------------------------------------------------------
(* What DeviceSessions speaks of: the session whose socket the device's    *)
(* stream writes to, the sessions that had a stream, the subscribed devices.*)
ServedBy == [d \in Devices |-> IF userOf[d] = None THEN 0 ELSE stream[userOf[d]]]
Ended ==
  {s \in DOMAIN sockets : sockets[s].phase # "connecting" /\ stream[sockets[s].user] # s}
TakesPart ==
  [o \in Objects |->
     {d \in Devices : \E u \in User : u.device = d /\ subscriber[o][u] # 0}]

(* The server implements DeviceSessions: with several users per device, its *)
(* five maps and runners that wait for the storage, a device is served by   *)
(* one connection, which never comes back once it was replaced or ended,    *)
(* and leaves every group in the step that ends or replaces it.             *)
Promise == INSTANCE DeviceSessions WITH
  Connections <- Sessions, None <- 0,
  serving <- ServedBy, over <- Ended, members <- TakesPart
ImplementsSessions == Promise!SessionSpec
=============================================================================
