------------------------ MODULE RealtimeServerProofs ------------------------
(* Proofs about RealtimeServer, for any sets of devices and objects and any *)
(* bounds.                                                                   *)
EXTENDS RealtimeServer, TLAPS

(* A device is mapped to one of its own users.                              *)
OwnDevice == \A d \in Devices : userOf[d] # None => userOf[d].device = d

(* Streams belong to websockets whose Connect was handled, and only stopped *)
(* websockets say goodbye.                                                  *)
Handled ==
  /\ \A u \in User : stream[u] # 0 => sockets[stream[u]].phase # "connecting"
  /\ \A s \in DOMAIN sockets : sockets[s].farewells > 0 => sockets[s].phase = "closed"

(* A subscription is recorded where remove_user looks for it.               *)
Tracked ==
  \A o \in Objects, u \in User : subscriber[o][u] # 0 => o \in editing[u]

(* The inductive invariant: a ghost subscriber could arise if remove_user   *)
(* did not know of a subscription, and a Disconnect could cut off an open   *)
(* websocket if a goodbye came from one that is not stopped.                *)
ServerInv ==
  /\ TypeOK /\ OwnDevice /\ Handled /\ Tracked
  /\ OneStreamPerDevice /\ OpenIsServed /\ NoGhostSubscriber /\ StreamsEnd

USE ServerAssumption DEF streamVars, groupVars

-----------------------------------------------------------------------------
(* Replacing an element of the sequence of sockets keeps its type.          *)
LEMMA SocketUpdated ==
  ASSUME NEW q \in Seq(Socket), NEW s \in DOMAIN q, NEW x \in Socket
  PROVE  /\ [q EXCEPT ![s] = x] \in Seq(Socket)
         /\ Len([q EXCEPT ![s] = x]) = Len(q)
         /\ DOMAIN [q EXCEPT ![s] = x] = DOMAIN q
  OBVIOUS

(* The sockets of a typed state are sockets of users.                       *)
LEMMA SocketTyped ==
  ASSUME NEW q \in Seq(Socket), NEW s \in DOMAIN q
  PROVE  q[s] \in Socket /\ q[s].user \in User
<1>1. q[s] \in Socket
  OBVIOUS
<1>. QED  BY <1>1 DEF Socket

(* What remove_user does to the subscriptions.                              *)
LEMMA UnsubscribedFacts ==
  ASSUME ServerInv, NEW u \in User
  PROVE  /\ Unsubscribed(u) \in [Objects -> [User -> 0 .. Len(sockets)]]
         /\ \A o \in Objects : Unsubscribed(u)[o][u] = 0
         /\ \A o \in Objects, v \in User :
              v # u => Unsubscribed(u)[o][v] = subscriber[o][v]
  BY DEF ServerInv, TypeOK, Tracked, Unsubscribed

-----------------------------------------------------------------------------
(* The inductive invariant holds when the server starts.                    *)
LEMMA InitHolds == Init => ServerInv
<1>. SUFFICES ASSUME Init PROVE ServerInv
  OBVIOUS
<1>1. deaf \subseteq User /\ hung \in BOOLEAN
  BY DEF Init
<1>2. TypeOK
  BY <1>1 DEF Init, TypeOK, User, Runners
<1>. QED  BY <1>2 DEF Init, ServerInv, OwnDevice, Handled, Tracked, OneStreamPerDevice,
                      OpenIsServed, NoGhostSubscriber, StreamsEnd, User

(* The steps that touch neither websockets nor subscriptions.               *)
LEMMA QuietStep ==
  ASSUME ServerInv, TypeOK', groups' = groups,
         UNCHANGED <<sockets, sessionOf, userOf, stream, editing, subscriber>>
  PROVE  ServerInv'
  BY DEF ServerInv, OwnDevice, Handled, Tracked, OneStreamPerDevice, OpenIsServed,
         NoGhostSubscriber, StreamsEnd

(* The clock touches no bookkeeping.                                        *)
LEMMA ClockStep ==
  ASSUME ServerInv, ClockTick
  PROVE  ServerInv'
<1>1. TypeOK'
  BY DEF ServerInv, TypeOK, ClockTick
<1>. QED  BY <1>1, QuietStep DEF ClockTick

(* A new websocket is appended: the existing session ids keep their meaning.*)
LEMMA StartConnectStep ==
  ASSUME ServerInv, NEW d \in Devices, StartConnect(d)
  PROVE  ServerInv'
<1>. DEFINE new == [user |-> [device |-> d, second |-> clock],
                    phase |-> "connecting", farewells |-> 0]
<1>1. new \in Socket
  BY DEF ServerInv, TypeOK, Socket, User, Phases
<1>. HIDE DEF new
<1>2. /\ sockets' = Append(sockets, new)
      /\ sockets' \in Seq(Socket)
      /\ Len(sockets') = Len(sockets) + 1
      /\ Len(sockets) < MaxSessions
      /\ DOMAIN sockets' = DOMAIN sockets \cup {Len(sockets) + 1}
      /\ \A s \in DOMAIN sockets : sockets'[s] = sockets[s]
      /\ sockets'[Len(sockets) + 1] = new
  BY <1>1 DEF ServerInv, TypeOK, StartConnect, new
<1>3. UNCHANGED <<clock, sessionOf, userOf, stream, editing, subscriber, groups, current,
                  queue, creating, deaf, hung>>
  BY DEF StartConnect
<1>4. TypeOK'
  BY <1>2, <1>3 DEF ServerInv, TypeOK
<1>5. \A u \in User : stream[u] # 0 => stream[u] \in DOMAIN sockets
  BY DEF ServerInv, TypeOK
<1>6. new.phase = "connecting" /\ new.farewells = 0
  BY DEF new
<1>7. (OwnDevice /\ Tracked /\ OneStreamPerDevice /\ NoGhostSubscriber)'
  BY <1>3 DEF ServerInv, OwnDevice, Tracked, OneStreamPerDevice, NoGhostSubscriber
<1>8. Handled' /\ OpenIsServed' /\ StreamsEnd'
  BY <1>2, <1>3, <1>5, <1>6 DEF ServerInv, Handled, OpenIsServed, StreamsEnd
<1>. QED  BY <1>4, <1>7, <1>8 DEF ServerInv

(* A websocket that stops leaves its Disconnect behind.                     *)
LEMMA StopStep ==
  ASSUME ServerInv, NEW s \in DOMAIN sockets, Stop(s)
  PROVE  ServerInv'
<1>1. PICK n \in {1, 2} :
        sockets' = [sockets EXCEPT ![s].phase = "closed", ![s].farewells = n]
  BY DEF Stop
<1>2. sockets \in Seq(Socket) /\ sockets[s] \in Socket
  BY DEF ServerInv, TypeOK
<1>. DEFINE x == [sockets[s] EXCEPT !.phase = "closed", !.farewells = n]
<1>3. /\ x \in Socket
      /\ x.user = sockets[s].user /\ x.phase = "closed" /\ x.farewells > 0
  <2>1. n \in 0 .. 2 /\ n > 0 /\ "closed" \in Phases
    BY DEF Phases
  <2>. QED  BY <1>2, <2>1 DEF Socket
<1>4. sockets' = [sockets EXCEPT ![s] = x]
  BY <1>1, <1>2 DEF Socket
<1>. HIDE DEF x
<1>5. /\ sockets' \in Seq(Socket) /\ Len(sockets') = Len(sockets)
      /\ DOMAIN sockets' = DOMAIN sockets
      /\ sockets'[s] = x
      /\ \A t \in DOMAIN sockets : t # s => sockets'[t] = sockets[t]
  BY <1>2, <1>3, <1>4, SocketUpdated
<1>6. UNCHANGED <<clock, sessionOf, userOf, stream, editing, subscriber, groups, current,
                  queue, creating, deaf, hung>>
  BY DEF Stop
<1>7. TypeOK'
  BY <1>5, <1>6 DEF ServerInv, TypeOK
<1>8. (OwnDevice /\ Tracked /\ OneStreamPerDevice /\ NoGhostSubscriber)'
  BY <1>6 DEF ServerInv, OwnDevice, Tracked, OneStreamPerDevice, NoGhostSubscriber
<1>9. \A u \in User : stream[u] # 0 => stream[u] \in DOMAIN sockets
  BY DEF ServerInv, TypeOK
<1>10. Handled' /\ OpenIsServed' /\ StreamsEnd'
  BY <1>3, <1>5, <1>6, <1>9 DEF ServerInv, Handled, OpenIsServed, StreamsEnd
<1>. QED  BY <1>7, <1>8, <1>10 DEF ServerInv

(* Handler<Disconnect> only undoes what belongs to the session it names.    *)
LEMMA DisconnectStep ==
  ASSUME ServerInv, NEW s \in DOMAIN sockets, HandleDisconnect(s)
  PROVE  ServerInv'
<1>. DEFINE user == sockets[s].user
            x == [sockets[s] EXCEPT !.farewells = @ - 1]
<1>1. sockets \in Seq(Socket) /\ sockets[s] \in Socket /\ user \in User
  BY SocketTyped DEF ServerInv, TypeOK
<1>2. /\ x \in Socket
      /\ x.user = user /\ x.phase = sockets[s].phase
      /\ sockets[s].phase = "closed"
  BY <1>1 DEF HandleDisconnect, ServerInv, Handled, Socket
<1>3. sockets' = [sockets EXCEPT ![s] = x]
  BY <1>1 DEF HandleDisconnect, Socket
<1>. HIDE DEF x, user
<1>4. /\ sockets' \in Seq(Socket) /\ Len(sockets') = Len(sockets)
      /\ DOMAIN sockets' = DOMAIN sockets
      /\ sockets'[s] = x
      /\ \A t \in DOMAIN sockets : t # s => sockets'[t] = sockets[t]
  BY <1>1, <1>2, <1>3, SocketUpdated
<1>5. UNCHANGED <<clock, sessionOf, userOf, groups, current, queue, creating, hung>>
  BY DEF HandleDisconnect
<1>6. \A u \in User : stream[u] # 0 => stream[u] \in DOMAIN sockets
  BY DEF ServerInv, TypeOK
<1>7. CASE sessionOf[user] # s
  <2>1. UNCHANGED <<stream, deaf, editing, subscriber>>
    BY <1>7 DEF HandleDisconnect, user
  <2>2. \A u \in User : stream[u] # s
    BY <1>1, <1>6, <1>7 DEF ServerInv, OneStreamPerDevice, StreamsEnd, user
  <2>3. TypeOK'
    BY <1>4, <1>5, <2>1 DEF ServerInv, TypeOK
  <2>4. (OwnDevice /\ Tracked /\ OneStreamPerDevice /\ NoGhostSubscriber)'
    BY <1>5, <2>1 DEF ServerInv, OwnDevice, Tracked, OneStreamPerDevice, NoGhostSubscriber
  <2>5. Handled' /\ OpenIsServed' /\ StreamsEnd'
    BY <1>2, <1>4, <1>6, <2>1, <2>2 DEF ServerInv, Handled, OpenIsServed, StreamsEnd
  <2>. QED  BY <2>3, <2>4, <2>5 DEF ServerInv
<1>8. CASE sessionOf[user] = s
  <2>1. /\ subscriber' = Unsubscribed(user)
        /\ editing' = [editing EXCEPT ![user] = {}]
        /\ stream' = [stream EXCEPT ![user] = 0]
        /\ deaf' = deaf \ {user}
    BY <1>8 DEF HandleDisconnect, user
  <2>2. /\ subscriber' \in [Objects -> [User -> 0 .. Len(sockets)]]
        /\ \A o \in Objects : subscriber'[o][user] = 0
        /\ \A o \in Objects, v \in User : v # user => subscriber'[o][v] = subscriber[o][v]
    BY <1>1, <2>1, UnsubscribedFacts
  <2>3. /\ stream' \in [User -> 0 .. Len(sockets)]
        /\ stream'[user] = 0
        /\ \A v \in User : v # user => stream'[v] = stream[v]
    BY <1>1, <2>1 DEF ServerInv, TypeOK
  <2>4. /\ editing' \in [User -> SUBSET Objects]
        /\ \A v \in User : v # user => editing'[v] = editing[v]
    BY <1>1, <2>1 DEF ServerInv, TypeOK
  <2>5. \A t \in DOMAIN sockets :
          sockets[t].phase = "open" => sockets[t].user # user
    BY <1>1, <1>2, <1>8 DEF ServerInv, OpenIsServed, OneStreamPerDevice, user
  <2>6. \A u \in User : u # user => stream[u] # s
    BY <1>1, <1>6 DEF ServerInv, StreamsEnd, user
  <2>7. \A t \in DOMAIN sockets : sockets[t].user \in User
    BY SocketTyped DEF ServerInv, TypeOK
  <2>8. TypeOK'
    BY <1>4, <1>5, <2>1, <2>2, <2>3, <2>4 DEF ServerInv, TypeOK
  <2>9. OwnDevice' /\ OneStreamPerDevice'
    BY <1>5, <2>3 DEF ServerInv, OwnDevice, OneStreamPerDevice
  <2>10. Tracked' /\ NoGhostSubscriber'
    <3>1. ASSUME NEW o \in Objects, NEW v \in User, subscriber'[o][v] # 0
          PROVE  o \in editing'[v] /\ o \in groups' /\ stream'[v] = subscriber'[o][v]
      <4>1. v # user /\ subscriber'[o][v] = subscriber[o][v]
        BY <2>2, <3>1
      <4>. QED  BY <1>5, <2>3, <2>4, <3>1, <4>1 DEF ServerInv, Tracked, NoGhostSubscriber
    <3>. QED  BY <3>1 DEF Tracked, NoGhostSubscriber
  <2>11. Handled'
    BY <1>2, <1>4, <1>6, <2>3, <2>6 DEF ServerInv, Handled
  <2>12. OpenIsServed'
    BY <1>2, <1>4, <2>3, <2>5, <2>7 DEF ServerInv, OpenIsServed
  <2>13. StreamsEnd'
    BY <1>2, <1>4, <1>6, <2>3, <2>6 DEF ServerInv, StreamsEnd
  <2>. QED  BY <2>8, <2>9, <2>10, <2>11, <2>12, <2>13 DEF ServerInv
<1>. QED  BY <1>7, <1>8

(* Handler<Connect> moves the device from its old user to the new one.      *)
LEMMA ConnectStep ==
  ASSUME ServerInv, NEW s \in DOMAIN sockets, HandleConnect(s)
  PROVE  ServerInv'
<1>. DEFINE user == sockets[s].user
            old == userOf[user.device]
            x == [sockets[s] EXCEPT !.phase = "open"]
            opened == [sockets EXCEPT ![s] = x]
            kicks == old # None /\ stream[old] # 0 /\ sockets[stream[old]].phase = "open"
            k == stream[old]
            y == [opened[k] EXCEPT !.phase = "kicked"]
<1>1. /\ sockets \in Seq(Socket) /\ sockets[s] \in Socket
      /\ user \in User /\ user.device \in Devices
      /\ old \in User \cup {None}
      /\ sockets[s].phase = "connecting"
  BY SocketTyped DEF ServerInv, TypeOK, HandleConnect, User
<1>2. /\ x \in Socket
      /\ x.user = user /\ x.phase = "open" /\ x.farewells = sockets[s].farewells
      /\ x.farewells = 0
  <2>1. "open" \in Phases
    BY DEF Phases
  <2>2. sockets[s].farewells = 0
    BY <1>1 DEF ServerInv, Handled, Socket
  <2>. QED  BY <1>1, <2>1, <2>2 DEF Socket
<1>3. opened = [sockets EXCEPT ![s].phase = "open"]
  BY <1>1 DEF Socket
<1>. HIDE DEF x
<1>4. /\ opened \in Seq(Socket) /\ Len(opened) = Len(sockets)
      /\ DOMAIN opened = DOMAIN sockets
      /\ opened[s] = x
      /\ \A t \in DOMAIN sockets : t # s => opened[t] = sockets[t]
  BY <1>1, <1>2, SocketUpdated
<1>5. \A u \in User : stream[u] # 0 => stream[u] \in DOMAIN sockets /\ stream[u] # s
  BY <1>1 DEF ServerInv, TypeOK, Handled
<1>6. kicks => /\ k \in DOMAIN sockets /\ k # s
               /\ y \in Socket
               /\ y.user = sockets[k].user /\ y.phase = "kicked"
               /\ y.farewells = sockets[k].farewells
  <2>. SUFFICES ASSUME kicks PROVE k \in DOMAIN sockets /\ k # s
                  /\ y \in Socket
                  /\ y.user = sockets[k].user /\ y.phase = "kicked"
                  /\ y.farewells = sockets[k].farewells
    OBVIOUS
  <2>1. k \in DOMAIN sockets /\ k # s
    BY <1>1, <1>5
  <2>2. opened[k] = sockets[k] /\ sockets[k] \in Socket
    BY <1>1, <1>4, <2>1, SocketTyped
  <2>3. "kicked" \in Phases
    BY DEF Phases
  <2>. QED  BY <2>1, <2>2, <2>3 DEF Socket
<1>. HIDE DEF opened
<1>7. sockets' = IF kicks THEN [opened EXCEPT ![k] = y] ELSE opened
  <2>1. CASE old = None
    BY <1>3, <2>1 DEF HandleConnect
  <2>2. CASE old # None /\ kicks
    <3>1. sockets' = [opened EXCEPT ![k].phase = "kicked"]
      BY <1>3, <2>2 DEF HandleConnect
    <3>. QED  BY <1>4, <1>6, <2>2, <3>1
  <2>3. CASE old # None /\ ~kicks
    BY <1>3, <2>3 DEF HandleConnect
  <2>. QED  BY <2>1, <2>2, <2>3
<1>. HIDE DEF y
<1>8. /\ sockets' \in Seq(Socket) /\ Len(sockets') = Len(sockets)
      /\ DOMAIN sockets' = DOMAIN sockets
      /\ sockets'[s] = x
      /\ \A t \in DOMAIN sockets : t # s /\ ~(kicks /\ t = k) => sockets'[t] = sockets[t]
      /\ kicks => sockets'[k] = y
  <2>1. CASE kicks
    <3>1. /\ sockets' \in Seq(Socket) /\ Len(sockets') = Len(opened)
          /\ DOMAIN sockets' = DOMAIN opened
      BY <1>4, <1>6, <1>7, <2>1, SocketUpdated
    <3>2. sockets' = [opened EXCEPT ![k] = y]
      BY <1>7, <2>1
    <3>. QED  BY <1>4, <1>6, <2>1, <3>1, <3>2
  <2>2. CASE ~kicks
    BY <1>4, <1>7, <2>2
  <2>. QED  BY <2>1, <2>2
<1>9. /\ sessionOf' = [sessionOf EXCEPT ![user] = s]
      /\ userOf' = [userOf EXCEPT ![user.device] = user]
      /\ deaf' = deaf \ {old, user}
      /\ UNCHANGED <<clock, groups, current, queue, creating, hung>>
  BY DEF HandleConnect
(* The old connection's stream, user and subscriptions are gone.            *)
<1>10. /\ stream' \in [User -> 0 .. Len(sockets)]
       /\ stream'[user] = s
       /\ \A v \in User : v # user /\ v # old => stream'[v] = stream[v]
       /\ old # None /\ old # user => stream'[old] = 0
  <2>1. CASE old = None
    <3>1. stream' = [stream EXCEPT ![user] = s]
      BY <2>1 DEF HandleConnect
    <3>. QED  BY <1>1, <2>1, <3>1 DEF ServerInv, TypeOK
  <2>2. CASE old # None
    <3>1. stream' = [stream EXCEPT ![old] = 0, ![user] = s]
      BY <2>2 DEF HandleConnect
    <3>2. old \in User /\ user \in User /\ s \in 0 .. Len(sockets)
      BY <1>1, <2>2
    <3>3. stream \in [User -> 0 .. Len(sockets)] /\ 0 \in 0 .. Len(sockets)
      BY <1>1 DEF ServerInv, TypeOK
    <3>. HIDE DEF old, user
    <3>. QED  BY <3>1, <3>2, <3>3
  <2>. QED  BY <2>1, <2>2
<1>11. /\ editing' \in [User -> SUBSET Objects]
       /\ \A v \in User : v # old => editing'[v] = editing[v]
  BY <1>1 DEF ServerInv, TypeOK, HandleConnect
<1>12. /\ subscriber' \in [Objects -> [User -> 0 .. Len(sockets)]]
       /\ \A o \in Objects, v \in User : v # old => subscriber'[o][v] = subscriber[o][v]
       /\ \A o \in Objects : old # None => subscriber'[o][old] = 0
  <2>1. CASE old = None
    BY <1>1, <2>1 DEF ServerInv, TypeOK, HandleConnect
  <2>2. CASE old # None
    <3>1. subscriber' = Unsubscribed(old) /\ old \in User
      BY <1>1, <2>2 DEF HandleConnect
    <3>. QED  BY <3>1, UnsubscribedFacts
  <2>. QED  BY <2>1, <2>2
(* A user of the device that has a stream is the old one.                   *)
<1>13. \A v \in User : v.device = user.device /\ stream[v] # 0 => v = old
  BY <1>1 DEF ServerInv, OneStreamPerDevice
<1>14. old # None => old \in User /\ old.device = user.device
  BY <1>1 DEF ServerInv, OwnDevice
<1>15. /\ \A v \in User : v.device \in Devices
       /\ None \notin User
  BY DEF User
<1>16. /\ sessionOf' \in [User -> 0 .. Len(sockets)]
       /\ sessionOf'[user] = s
       /\ \A v \in User : v # user => sessionOf'[v] = sessionOf[v]
       /\ userOf' \in [Devices -> User \cup {None}]
       /\ userOf'[user.device] = user
       /\ \A d \in Devices : d # user.device => userOf'[d] = userOf[d]
  BY <1>1, <1>9 DEF ServerInv, TypeOK
<1>17. TypeOK'
  BY <1>8, <1>9, <1>10, <1>11, <1>12, <1>16 DEF ServerInv, TypeOK
<1>. HIDE DEF user, old, kicks, k
<1>18. OwnDevice'
  BY <1>1, <1>16 DEF ServerInv, OwnDevice
<1>19. OneStreamPerDevice'
  <2>. SUFFICES ASSUME NEW v \in User, stream'[v] # 0
                PROVE  userOf'[v.device] = v /\ sessionOf'[v] = stream'[v]
    BY DEF OneStreamPerDevice
  <2>1. CASE v = user
    BY <1>10, <1>16, <2>1
  <2>2. CASE v # user
    <3>1. v # old /\ stream'[v] = stream[v]
      BY <1>10, <1>14, <1>15, <2>2
    <3>2. v.device # user.device
      BY <1>13, <3>1
    <3>. QED  BY <1>15, <1>16, <2>2, <3>1, <3>2 DEF ServerInv, OneStreamPerDevice
  <2>. QED  BY <2>1, <2>2
<1>20. Tracked' /\ NoGhostSubscriber'
  <2>1. ASSUME NEW o \in Objects, NEW v \in User, subscriber'[o][v] # 0
        PROVE  o \in editing'[v] /\ o \in groups' /\ stream'[v] = subscriber'[o][v]
    <3>1. v # old /\ subscriber'[o][v] = subscriber[o][v]
      BY <1>12, <1>14, <1>15, <2>1
    <3>2. stream[v] # 0 /\ stream[v] = subscriber[o][v] /\ o \in groups /\ o \in editing[v]
      BY <2>1, <3>1 DEF ServerInv, NoGhostSubscriber, Tracked
    <3>3. v # user
      BY <1>1, <1>13, <3>1, <3>2
    <3>. QED  BY <1>9, <1>10, <1>11, <3>1, <3>2, <3>3
  <2>. QED  BY <2>1 DEF Tracked, NoGhostSubscriber
<1>21. Handled'
  <2>1. ASSUME NEW v \in User, stream'[v] # 0
        PROVE  sockets'[stream'[v]].phase # "connecting"
    <3>1. CASE v = user
      BY <1>2, <1>8, <1>10, <3>1
    <3>2. CASE v # user
      <4>1. v # old /\ stream'[v] = stream[v]
        BY <1>10, <1>14, <1>15, <2>1, <3>2
      <4>2. stream[v] \in DOMAIN sockets /\ stream[v] # s
        BY <1>5, <2>1, <4>1
      <4>. QED  BY <1>6, <1>8, <2>1, <4>1, <4>2 DEF ServerInv, Handled
    <3>. QED  BY <3>1, <3>2
  <2>2. ASSUME NEW t \in DOMAIN sockets', sockets'[t].farewells > 0
        PROVE  sockets'[t].phase = "closed"
    <3>1. t # s
      BY <1>2, <1>8, <2>2
    <3>2. kicks /\ t = k => FALSE
      BY <1>6, <1>8, <2>2 DEF ServerInv, Handled, kicks, k
    <3>. QED  BY <1>8, <2>2, <3>1, <3>2 DEF ServerInv, Handled
  <2>. QED  BY <2>1, <2>2 DEF Handled
<1>22. OpenIsServed'
  <2>. SUFFICES ASSUME NEW t \in DOMAIN sockets', sockets'[t].phase = "open"
                PROVE  stream'[sockets'[t].user] = t
    BY DEF OpenIsServed
  <2>1. CASE t = s
    BY <1>2, <1>8, <1>10, <2>1
  <2>2. CASE t # s
    <3>1. ~(kicks /\ t = k)
      BY <1>6, <1>8
    <3>2. sockets'[t] = sockets[t] /\ sockets[t].user \in User
      BY <1>1, <1>8, <2>2, <3>1, SocketTyped
    <3>3. stream[sockets[t].user] = t /\ t # 0
      BY <1>1, <1>8, <3>2 DEF ServerInv, OpenIsServed
    <3>4. sockets[t].user # old
      <4>. SUFFICES ASSUME sockets[t].user = old PROVE FALSE
        OBVIOUS
      <4>1. old # None /\ stream[old] = t /\ stream[old] # 0
        BY <1>15, <3>2, <3>3
      <4>. QED  BY <3>1, <3>2, <4>1 DEF kicks, k
    <3>5. sockets[t].user # user
      BY <1>1, <1>13, <3>2, <3>3, <3>4
    <3>. QED  BY <1>10, <3>2, <3>3, <3>4, <3>5
  <2>. QED  BY <2>1, <2>2
<1>23. StreamsEnd'
  <2>. SUFFICES ASSUME NEW v \in User, stream'[v] # 0
                PROVE  /\ sockets'[stream'[v]].user = v
                       /\ sockets'[stream'[v]].phase = "closed"
                            => sockets'[stream'[v]].farewells > 0
    BY DEF StreamsEnd
  <2>1. CASE v = user
    BY <1>2, <1>8, <1>10, <2>1
  <2>2. CASE v # user
    <3>1. v # old /\ stream'[v] = stream[v]
      BY <1>10, <1>14, <1>15, <2>2
    <3>2. stream[v] \in DOMAIN sockets /\ stream[v] # s
      BY <1>5, <3>1
    <3>. QED  BY <1>6, <1>8, <3>1, <3>2 DEF ServerInv, StreamsEnd
  <2>. QED  BY <2>1, <2>2
<1>. QED  BY <1>17, <1>18, <1>19, <1>20, <1>21, <1>22, <1>23 DEF ServerInv

(* Subscribing from a set of subscriptions that are those of the group or   *)
(* fewer keeps the invariant.                                               *)
LEMMA SubscribeStep ==
  ASSUME ServerInv, NEW u \in User, NEW o \in Objects,
         NEW subs \in [User -> 0 .. Len(sockets)],
         \A v \in User : subs[v] # 0 => subs[v] = subscriber[o][v],
         Subscribe(u, o, subs), TypeOK',
         o \in groups', groups \subseteq groups',
         UNCHANGED <<sockets, sessionOf, userOf, stream>>
  PROVE  ServerInv'
<1>1. (OwnDevice /\ Handled /\ OneStreamPerDevice /\ OpenIsServed /\ StreamsEnd)'
  BY DEF ServerInv, OwnDevice, Handled, OneStreamPerDevice, OpenIsServed, StreamsEnd
<1>2. ASSUME NEW p \in Objects, NEW v \in User, subscriber'[p][v] # 0
      PROVE  p \in editing'[v] /\ p \in groups' /\ stream'[v] = subscriber'[p][v]
  <2>1. subscriber \in [Objects -> [User -> 0 .. Len(sockets)]]
          /\ editing \in [User -> SUBSET Objects]
    BY DEF ServerInv, TypeOK
  <2>2. editing[v] \subseteq editing'[v]
    BY <2>1 DEF Subscribe
  <2>3. CASE p # o
    <3>1. subscriber'[p][v] = subscriber[p][v]
      BY <2>1, <2>3 DEF Subscribe
    <3>. QED  BY <1>2, <2>2, <3>1 DEF ServerInv, Tracked, NoGhostSubscriber
  <2>4. CASE p = o /\ subscriber'[o][v] = subs[v]
    BY <1>2, <2>2, <2>4 DEF ServerInv, Tracked, NoGhostSubscriber
  <2>5. CASE p = o /\ subscriber'[o][v] # subs[v]
    <3>1. ~(stream[u] = 0 \/ subs[u] # 0)
      BY <2>1, <2>5 DEF Subscribe
    <3>2. subscriber'[o][v] = IF v = u THEN stream[u]
                              ELSE IF v.device = u.device THEN 0 ELSE subs[v]
      BY <2>1, <3>1 DEF Subscribe
    <3>3. v = u
      BY <1>2, <2>5, <3>2
    <3>4. editing'[u] = editing[u] \cup {o}
      BY <2>1, <3>1 DEF Subscribe
    <3>. QED  BY <2>5, <3>2, <3>3, <3>4
  <2>. QED  BY <2>3, <2>4, <2>5
<1>. QED  BY <1>1, <1>2 DEF ServerInv, Tracked, NoGhostSubscriber

(* Subscribe keeps the types of what it changes.                            *)
LEMMA SubscribeType ==
  ASSUME TypeOK, NEW u \in User, NEW o \in Objects,
         NEW subs \in [User -> 0 .. Len(sockets)], Subscribe(u, o, subs)
  PROVE  /\ subscriber' \in [Objects -> [User -> 0 .. Len(sockets)]]
         /\ editing' \in [User -> SUBSET Objects]
         /\ deaf' \subseteq User
<1>0. deaf' \subseteq User
  BY DEF Subscribe, TypeOK
<1>1. /\ subscriber \in [Objects -> [User -> 0 .. Len(sockets)]]
      /\ editing \in [User -> SUBSET Objects]
      /\ stream \in [User -> 0 .. Len(sockets)]
      /\ 0 \in 0 .. Len(sockets)
  BY DEF TypeOK
<1>2. CASE stream[u] = 0 \/ subs[u] # 0
  BY <1>0, <1>1, <1>2 DEF Subscribe
<1>3. CASE ~(stream[u] = 0 \/ subs[u] # 0)
  <2>. DEFINE new == [v \in User |-> IF v = u THEN stream[u]
                                     ELSE IF v.device = u.device THEN 0 ELSE subs[v]]
  <2>1. new \in [User -> 0 .. Len(sockets)]
    BY <1>1
  <2>2. /\ subscriber' = [subscriber EXCEPT ![o] = new]
        /\ editing' = [editing EXCEPT ![u] = @ \cup {o}]
    BY <1>3 DEF Subscribe
  <2>. HIDE DEF new
  <2>. QED  BY <1>0, <1>1, <2>1, <2>2
<1>. QED  BY <1>2, <1>3

(* A command that is taken from a queue is that of a user.                  *)
LEMMA CommandTyped ==
  ASSUME TypeOK, NEW o \in Objects, NEW r \in Runners, Runnable(o, r)
  PROVE  /\ Head(queue[o][r]) \in Command
         /\ Head(queue[o][r]).user \in User
         /\ [queue EXCEPT ![o][r] = Tail(@)] \in [Objects -> [Runners -> Seq(Command)]]
<1>1. /\ queue \in [Objects -> [Runners -> Seq(Command)]]
      /\ queue[o][r] \in Seq(Command) /\ queue[o][r] # <<>>
  BY DEF TypeOK, Runnable
<1>2. Head(queue[o][r]) \in Command /\ Tail(queue[o][r]) \in Seq(Command)
  BY <1>1
<1>3. Head(queue[o][r]).user \in User
  BY <1>2 DEF Command
<1>. QED  BY <1>1, <1>2, <1>3

(* Queueing a command touches no connection and no subscriber.              *)
LEMMA SendCommandStep ==
  ASSUME ServerInv, NEW u \in User, NEW o \in Objects, NEW init \in BOOLEAN,
         SendCommand(u, o, init)
  PROVE  ServerInv'
<1>. DEFINE cmd == [user |-> u, init |-> init]
            r == current[o]
<1>1. cmd \in Command /\ r \in Runners
      /\ queue \in [Objects -> [Runners -> Seq(Command)]]
  BY DEF Command, ServerInv, TypeOK
<1>. HIDE DEF cmd
<1>2. Append(queue[o][r], cmd) \in Seq(Command)
  BY <1>1
<1>3. queue' = [queue EXCEPT ![o][r] = Append(@, cmd)]
  BY DEF SendCommand, cmd
<1>4. queue' \in [Objects -> [Runners -> Seq(Command)]]
  BY <1>1, <1>2, <1>3
<1>5. UNCHANGED <<clock, sockets, sessionOf, userOf, stream, editing, subscriber, groups,
                  current, creating, deaf, hung>>
  BY DEF SendCommand
<1>6. TypeOK'
  BY <1>4, <1>5 DEF ServerInv, TypeOK
<1>. QED  BY <1>5, <1>6, QuietStep

(* A runner's step subscribes only a user that has a stream now.            *)
LEMMA RunStep ==
  ASSUME ServerInv, NEW o \in Objects, NEW r \in Runners, Run(o, r)
  PROVE  ServerInv'
<1>0. TypeOK
  BY DEF ServerInv
<1>1. CASE HandleUnconnected(o, r)
  <2>1. Runnable(o, r)
    BY <1>1 DEF HandleUnconnected
  <2>2. queue' \in [Objects -> [Runners -> Seq(Command)]]
    BY <1>0, <1>1, <2>1, CommandTyped DEF HandleUnconnected
  <2>3. TypeOK'
    BY <1>0, <1>1, <2>2 DEF HandleUnconnected, TypeOK
  <2>. QED  BY <1>1, <2>3, QuietStep DEF HandleUnconnected
<1>2. CASE HandleInGroup(o, r)
  <2>. DEFINE cmd == Head(queue[o][r])
              subs == IF cmd.init THEN [subscriber[o] EXCEPT ![cmd.user] = 0]
                                  ELSE subscriber[o]
  <2>1. cmd.user \in User /\ queue' \in [Objects -> [Runners -> Seq(Command)]]
    BY <1>0, <1>2, CommandTyped DEF HandleInGroup
  <2>2. subscriber[o] \in [User -> 0 .. Len(sockets)] /\ 0 \in 0 .. Len(sockets)
    BY <1>0 DEF TypeOK
  <2>3. /\ subs \in [User -> 0 .. Len(sockets)]
        /\ \A v \in User : subs[v] # 0 => subs[v] = subscriber[o][v]
    BY <2>1, <2>2
  <2>4. Subscribe(cmd.user, o, subs)
    BY <1>2 DEF HandleInGroup
  <2>5. /\ UNCHANGED <<clock, sockets, sessionOf, userOf, stream, groups, current, creating>>
        /\ o \in groups
    BY <1>2 DEF HandleInGroup
  <2>6. hung' \in BOOLEAN
    BY <1>2 DEF HandleInGroup, broadcast_client_collab_message
  <2>. HIDE DEF subs, cmd
  <2>7. TypeOK'
    BY <1>0, <2>1, <2>3, <2>4, <2>5, <2>6, SubscribeType DEF TypeOK
  <2>. QED  BY <2>1, <2>3, <2>4, <2>5, <2>7, SubscribeStep
<1>3. CASE StartCreateGroup(o, r)
  <2>1. /\ Head(queue[o][r]).user \in User
        /\ queue' \in [Objects -> [Runners -> Seq(Command)]]
    BY <1>0, <1>3, CommandTyped DEF StartCreateGroup
  <2>2. creating' \in [Objects -> [Runners -> User \cup {None}]]
    BY <1>0, <1>3, <2>1 DEF StartCreateGroup, TypeOK
  <2>3. TypeOK'
    BY <1>0, <1>3, <2>1, <2>2 DEF StartCreateGroup, TypeOK
  <2>. QED  BY <1>3, <2>3, QuietStep DEF StartCreateGroup
<1>4. CASE FinishCreateGroup(o, r)
  <2>. DEFINE u == creating[o][r]
              subs == [v \in User |-> 0]
  <2>1. u \in User
    BY <1>0, <1>4 DEF FinishCreateGroup, TypeOK
  <2>2. creating' \in [Objects -> [Runners -> User \cup {None}]]
    BY <1>0, <1>4 DEF FinishCreateGroup, TypeOK
  <2>3. /\ subs \in [User -> 0 .. Len(sockets)]
        /\ \A v \in User : subs[v] # 0 => subs[v] = subscriber[o][v]
    BY <1>0 DEF TypeOK
  <2>4. Subscribe(u, o, subs)
    BY <1>4 DEF FinishCreateGroup
  <2>5. /\ UNCHANGED <<clock, sockets, sessionOf, userOf, stream, current, queue>>
        /\ o \in groups' /\ groups \subseteq groups' /\ groups' = groups \cup {o}
    BY <1>4 DEF FinishCreateGroup
  <2>6. hung' \in BOOLEAN
    BY <1>4 DEF FinishCreateGroup, broadcast_client_collab_message
  <2>. HIDE DEF subs, u
  <2>7. TypeOK'
    BY <1>0, <2>1, <2>2, <2>3, <2>4, <2>5, <2>6, SubscribeType DEF TypeOK
  <2>. QED  BY <2>1, <2>3, <2>4, <2>5, <2>7, SubscribeStep
<1>. QED  BY <1>1, <1>2, <1>3, <1>4 DEF Run

(* Only a group without subscribers is removed.                             *)
LEMMA RemoveStep ==
  ASSUME ServerInv, NEW o \in Objects, RemoveInactiveGroup(o)
  PROVE  ServerInv'
<1>1. /\ UNCHANGED <<clock, sockets, sessionOf, userOf, stream, editing, subscriber, queue,
                     creating, deaf, hung>>
      /\ groups' = groups \ {o}
      /\ \A u \in User : subscriber[o][u] = 0
  BY DEF RemoveInactiveGroup
<1>2. current' \in [Objects -> Runners]
  BY DEF ServerInv, TypeOK, RemoveInactiveGroup, Runners
<1>3. TypeOK'
  BY <1>1, <1>2 DEF ServerInv, TypeOK
<1>4. NoGhostSubscriber'
  BY <1>1 DEF ServerInv, NoGhostSubscriber
<1>5. (OwnDevice /\ Handled /\ Tracked /\ OneStreamPerDevice /\ OpenIsServed
        /\ StreamsEnd)'
  BY <1>1 DEF ServerInv, OwnDevice, Handled, Tracked, OneStreamPerDevice, OpenIsServed,
              StreamsEnd
<1>. QED  BY <1>3, <1>4, <1>5 DEF ServerInv

(* Every step preserves the inductive invariant.                            *)
LEMMA NextHolds == ServerInv /\ [Next]_vars => ServerInv'
<1>. SUFFICES ASSUME ServerInv, [Next]_vars PROVE ServerInv'
  OBVIOUS
<1>1. CASE ClockTick
  BY <1>1, ClockStep
<1>2. CASE Connection
  BY <1>2, StartConnectStep, ConnectStep, StopStep, DisconnectStep DEF Connection
<1>3. CASE Receive
  <2>1. ASSUME NEW o \in Objects, NEW init \in BOOLEAN, NEW s \in DOMAIN sockets,
               HandleClientMessage(s, o, init)
        PROVE  ServerInv'
    <3>1. sockets[s].user \in User
      BY SocketTyped DEF ServerInv, TypeOK
    <3>. QED  BY <2>1, <3>1, SendCommandStep DEF HandleClientMessage
  <2>2. ASSUME NEW o \in Objects, NEW init \in BOOLEAN, NEW d \in Devices,
               HandleStreamMessage(d, o, init)
        PROVE  ServerInv'
    <3>1. userOf[d] \in User
      BY <2>2 DEF HandleStreamMessage, ServerInv, TypeOK
    <3>. QED  BY <2>2, <3>1, SendCommandStep DEF HandleStreamMessage
  <2>. QED  BY <1>3, <2>1, <2>2 DEF Receive
<1>4. CASE \E o \in Objects : RemoveInactiveGroup(o) \/ \E r \in Runners : Run(o, r)
  BY <1>4, RemoveStep, RunStep
<1>5. CASE \E u \in User : LagBehind(u)
  <2>1. TypeOK'
    BY <1>5 DEF ServerInv, TypeOK, LagBehind
  <2>. QED  BY <1>5, <2>1, QuietStep DEF LagBehind
<1>6. CASE UNCHANGED vars
  <2>1. TypeOK'
    BY <1>6 DEF ServerInv, TypeOK, vars
  <2>. QED  BY <1>6, <2>1, QuietStep DEF vars
<1>. QED  BY <1>1, <1>2, <1>3, <1>4, <1>5, <1>6 DEF Next

(* The invariant holds in every reachable state.                            *)
THEOREM ServerInvariant == Spec => []ServerInv
  BY InitHolds, NextHolds, PTL DEF Spec

-----------------------------------------------------------------------------
(* The maps of the server stay within their types: every session id that    *)
(* session_id_by_user, client_stream_by_user or a subscription holds is one *)
(* of a websocket that was opened.                                          *)
THEOREM ServerTypes == Spec => []TypeOK
<1>1. ServerInv => TypeOK
  BY DEF ServerInv
<1>. QED  BY <1>1, ServerInvariant, PTL

(* A device has one stream, that of the latest connection handled: a new    *)
(* connection replaces the one the device had (Handler<Connect>).           *)
THEOREM DeviceHasOneStream == Spec => []OneStreamPerDevice
<1>1. ServerInv => OneStreamPerDevice
  BY DEF ServerInv
<1>. QED  BY <1>1, ServerInvariant, PTL

(* A websocket that is neither stopped nor kicked keeps its stream, however  *)
(* Disconnect messages of other sessions are delayed or repeated            *)
(* (Handler<Disconnect> compares session ids).                              *)
THEOREM OpenStaysServed == Spec => []OpenIsServed
<1>1. ServerInv => OpenIsServed
  BY DEF ServerInv
<1>. QED  BY <1>1, ServerInvariant, PTL

(* No group has a subscriber whose connection is gone, whatever happens     *)
(* while a runner waits for the storage or a second runner is started       *)
(* (SubscribeGroup::run, remove_user).                                      *)
THEOREM SubscribersAreConnected == Spec => []NoGhostSubscriber
<1>1. ServerInv => NoGhostSubscriber
  BY DEF ServerInv
<1>. QED  BY <1>1, ServerInvariant, PTL

(* A stream whose websocket has stopped is one for which a Disconnect is     *)
(* still on its way (RealtimeClient::stopping).                              *)
THEOREM StreamsAreEnded == Spec => []StreamsEnd
<1>1. ServerInv => StreamsEnd
  BY DEF ServerInv
<1>. QED  BY <1>1, ServerInvariant, PTL

-----------------------------------------------------------------------------
(* What the server promises a device (DeviceSessions): one step at a time,   *)
(* with ServerInv before and after it.                                       *)

(* A device is served by the session its one stream writes to.              *)
ServedOK ==
  /\ ServedBy \in [Devices -> 0 .. Len(sockets)]
  /\ \A u \in User : stream[u] # 0 => ServedBy[u.device] = stream[u]
  /\ \A d \in Devices :
       ServedBy[d] # 0 => /\ ServedBy[d] \in DOMAIN sockets
                          /\ userOf[d] \in User /\ userOf[d].device = d
                          /\ stream[userOf[d]] = ServedBy[d]
                          /\ sockets[ServedBy[d]].user = userOf[d]

(* ServedOK follows from the inductive invariant.                           *)
LEMMA ServedFacts == ServerInv => ServedOK
<1>. SUFFICES ASSUME ServerInv PROVE ServedOK
  OBVIOUS
<1>1. /\ stream \in [User -> 0 .. Len(sockets)]
      /\ userOf \in [Devices -> User \cup {None}]
      /\ \A u \in User : u.device \in Devices
      /\ None \notin User
  BY DEF ServerInv, TypeOK, User
<1>2. ServedBy \in [Devices -> 0 .. Len(sockets)]
  BY <1>1 DEF ServedBy, ServerInv, TypeOK
<1>3. \A u \in User : stream[u] # 0 => ServedBy[u.device] = stream[u]
  BY <1>1 DEF ServedBy, ServerInv, OneStreamPerDevice
<1>4. ASSUME NEW d \in Devices, ServedBy[d] # 0
      PROVE  /\ ServedBy[d] \in DOMAIN sockets
             /\ userOf[d] \in User /\ userOf[d].device = d
             /\ stream[userOf[d]] = ServedBy[d]
             /\ sockets[ServedBy[d]].user = userOf[d]
  <2>1. userOf[d] \in User /\ stream[userOf[d]] = ServedBy[d]
    BY <1>1, <1>4 DEF ServedBy
  <2>2. userOf[d].device = d
    BY <1>1, <2>1 DEF ServerInv, OwnDevice
  <2>3. ServedBy[d] \in DOMAIN sockets
    BY <1>2, <1>4 DEF ServerInv, TypeOK
  <2>4. sockets[ServedBy[d]].user = userOf[d]
    BY <1>4, <2>1 DEF ServerInv, StreamsEnd
  <2>. QED  BY <2>1, <2>2, <2>3, <2>4
<1>. QED  BY <1>2, <1>3, <1>4 DEF ServedOK

(* A session serves one device.                                             *)
LEMMA ServesOneDevice ==
  ASSUME ServedOK, NEW d \in Devices, NEW e \in Devices,
         ServedBy[d] # 0, ServedBy[d] = ServedBy[e]
  PROVE  d = e
  BY DEF ServedOK

(* A device that is in a group is served.                                   *)
LEMMA MembersAreServed ==
  ASSUME ServerInv, NEW o \in Objects
  PROVE  TakesPart[o] \subseteq Promise!Served
  BY ServedFacts DEF ServerInv, NoGhostSubscriber, ServedOK, TakesPart, Promise!Served, TypeOK

(* What nothing of the bookkeeping changes is a stutter.                    *)
LEMMA QuietImplements ==
  ASSUME UNCHANGED <<sockets, userOf, stream, subscriber>>
  PROVE  UNCHANGED Promise!sessionVars
  BY DEF Promise!sessionVars, ServedBy, Ended, TakesPart

(* The server serves nobody at first.                                       *)
LEMMA InitImplements == Init => Promise!SessionInit
  BY DEF Init, Promise!SessionInit, ServedBy, Ended, TakesPart

(* A websocket that is opened serves nobody yet.                            *)
LEMMA StartConnectImplements ==
  ASSUME ServerInv, NEW d \in Devices, StartConnect(d)
  PROVE  UNCHANGED Promise!sessionVars
<1>1. /\ sockets \in Seq(Socket)
      /\ sockets' = Append(sockets, [user |-> [device |-> d, second |-> clock],
                                     phase |-> "connecting", farewells |-> 0])
      /\ UNCHANGED <<userOf, stream, subscriber>>
  BY DEF ServerInv, TypeOK, StartConnect
<1>2. /\ DOMAIN sockets' = DOMAIN sockets \cup {Len(sockets) + 1}
      /\ \A s \in DOMAIN sockets : sockets'[s] = sockets[s]
      /\ sockets'[Len(sockets) + 1].phase = "connecting"
  BY <1>1
<1>3. Ended' = Ended
  BY <1>1, <1>2 DEF Ended
<1>. QED  BY <1>1, <1>3 DEF Promise!sessionVars, ServedBy, TakesPart

(* A websocket that stops is still the one that serves until its Disconnect *)
(* is handled.                                                              *)
LEMMA StopImplements ==
  ASSUME ServerInv, NEW s \in DOMAIN sockets, Stop(s)
  PROVE  UNCHANGED Promise!sessionVars
<1>1. PICK n \in {1, 2} :
        sockets' = [sockets EXCEPT ![s].phase = "closed", ![s].farewells = n]
  BY DEF Stop
<1>2. sockets \in Seq(Socket) /\ sockets[s] \in Socket /\ sockets[s].phase # "connecting"
  BY DEF ServerInv, TypeOK, Stop
<1>3. /\ DOMAIN sockets' = DOMAIN sockets
      /\ \A t \in DOMAIN sockets : t # s => sockets'[t] = sockets[t]
      /\ sockets'[s].phase = "closed" /\ sockets'[s].user = sockets[s].user
  BY <1>1, <1>2 DEF Socket
<1>4. UNCHANGED <<userOf, stream, subscriber>>
  BY DEF Stop
<1>5. Ended' = Ended
  BY <1>2, <1>3, <1>4 DEF Ended
<1>. QED  BY <1>4, <1>5 DEF Promise!sessionVars, ServedBy, TakesPart

(* Handler<Disconnect> ends the connection that serves the device, or none. *)
LEMMA DisconnectImplements ==
  ASSUME ServerInv, ServerInv', NEW s \in DOMAIN sockets, HandleDisconnect(s)
  PROVE  [Promise!SessionNext]_(Promise!sessionVars)
<1>. DEFINE user == sockets[s].user
            d == user.device
<1>1. /\ sockets \in Seq(Socket) /\ sockets[s] \in Socket
      /\ user \in User /\ d \in Devices
      /\ sockets[s].phase # "connecting"
  BY SocketTyped DEF ServerInv, TypeOK, User, HandleDisconnect, Handled
<1>2. /\ DOMAIN sockets' = DOMAIN sockets
      /\ \A t \in DOMAIN sockets : sockets'[t].phase = sockets[t].phase
                                /\ sockets'[t].user = sockets[t].user
  BY <1>1 DEF HandleDisconnect, Socket
<1>3. userOf' = userOf /\ stream \in [User -> 0 .. Len(sockets)]
      /\ \A t \in DOMAIN sockets : sockets[t].user \in User /\ t # 0
  BY SocketTyped DEF HandleDisconnect, ServerInv, TypeOK
<1>4. ServedOK /\ ServedOK'
  BY ServedFacts, PTL
<1>. HIDE DEF user
<1>5. CASE stream[user] # s
  <2>1. UNCHANGED <<stream, subscriber>>
    <3>1. CASE sessionOf[user] # s
      BY <3>1 DEF HandleDisconnect, user
    <3>2. CASE sessionOf[user] = s
      <4>1. stream[user] = 0
        BY <1>1, <1>5, <3>2 DEF ServerInv, OneStreamPerDevice
      <4>2. \A o \in Objects : subscriber[o][user] = 0
        BY <1>1, <4>1 DEF ServerInv, NoGhostSubscriber
      <4>3. stream' = [stream EXCEPT ![user] = 0] /\ subscriber' = Unsubscribed(user)
        BY <3>2 DEF HandleDisconnect, user
      <4>4. stream' = stream
        BY <1>3, <4>1, <4>3
      <4>5. /\ subscriber \in [Objects -> [User -> 0 .. Len(sockets)]]
            /\ subscriber' \in [Objects -> [User -> 0 .. Len(sockets)]]
            /\ \A o \in Objects : subscriber'[o][user] = 0
            /\ \A o \in Objects, v \in User :
                 v # user => subscriber'[o][v] = subscriber[o][v]
        <5>1. subscriber \in [Objects -> [User -> 0 .. Len(sockets)]]
          BY DEF ServerInv, TypeOK
        <5>. QED  BY <1>1, <4>3, <5>1, UnsubscribedFacts
      <4>6. ASSUME NEW o \in Objects PROVE subscriber'[o] = subscriber[o]
        <5>1. \A v \in User : subscriber'[o][v] = subscriber[o][v]
          BY <4>2, <4>5
        <5>. QED  BY <4>5, <5>1
      <4>7. subscriber' = subscriber
        BY <4>5, <4>6
      <4>. QED  BY <4>4, <4>7
    <3>. QED  BY <3>1, <3>2
  <2>2. Ended' = Ended
    BY <1>2, <2>1 DEF Ended
  <2>. QED  BY <1>3, <2>1, <2>2 DEF Promise!sessionVars, ServedBy, TakesPart
<1>6. CASE stream[user] = s
  <2>1. sessionOf[user] = s /\ userOf[d] = user /\ s # 0 /\ ServedBy[d] = s
    BY <1>1, <1>3, <1>4, <1>6 DEF ServerInv, OneStreamPerDevice, ServedOK
  <2>2. /\ stream' = [stream EXCEPT ![user] = 0]
        /\ subscriber' = Unsubscribed(user)
    BY <2>1 DEF HandleDisconnect, user
  <2>3. ServedBy' = [ServedBy EXCEPT ![d] = 0]
    <3>1. \A e \in Devices : userOf[e] # None /\ e # d => userOf[e] \in User /\ userOf[e] # user
      BY DEF ServerInv, OwnDevice, TypeOK
    <3>2. user # None
      BY <1>1 DEF User
    <3>. QED  BY <1>1, <1>3, <2>1, <2>2, <3>1, <3>2 DEF ServedBy
  <2>4. Ended' = Ended \cup {ServedBy[d]}
    <3>1. ASSUME NEW t \in DOMAIN sockets
          PROVE  stream'[sockets[t].user] # t
                   <=> stream[sockets[t].user] # t \/ t = s
      BY <1>1, <1>3, <1>6, <2>1, <2>2, <3>1 DEF user
    <3>. QED  BY <1>1, <1>2, <2>1, <3>1 DEF Ended
  <2>5. TakesPart' = [o \in Objects |-> TakesPart[o] \ {d}]
    <3>1. ASSUME NEW o \in Objects, NEW v \in User
          PROVE  subscriber'[o][v] # 0 <=> subscriber[o][v] # 0 /\ v.device # d
      <4>1. v.device = d /\ v # user => subscriber[o][v] = 0
        BY <2>1, <3>1 DEF ServerInv, OneStreamPerDevice, NoGhostSubscriber
      <4>. QED  BY <1>1, <2>2, <4>1, UnsubscribedFacts
    <3>. QED  BY <3>1 DEF TakesPart
  <2>6. Promise!Disconnect(d)
    BY <1>1, <2>1, <2>3, <2>4, <2>5 DEF Promise!Disconnect, Promise!Served, Promise!Left
  <2>. QED  BY <1>1, <2>6 DEF Promise!SessionNext
<1>. QED  BY <1>5, <1>6

(* Handler<Connect> makes the new session the one that serves the device.   *)
LEMMA ConnectImplements ==
  ASSUME ServerInv, ServerInv', NEW s \in DOMAIN sockets, HandleConnect(s)
  PROVE  Promise!SessionNext
<1>. DEFINE user == sockets[s].user
            d == user.device
            old == userOf[d]
            opened == [sockets EXCEPT ![s].phase = "open"]
<1>1. /\ sockets \in Seq(Socket) /\ sockets[s] \in Socket
      /\ user \in User /\ d \in Devices
      /\ old \in User \cup {None} /\ None \notin User
      /\ sockets[s].phase = "connecting"
      /\ s \in 1 .. Len(sockets) /\ Len(sockets) <= MaxSessions
  <2>1. /\ sockets \in Seq(Socket) /\ Len(sockets) <= MaxSessions
        /\ userOf \in [Devices -> User \cup {None}]
    BY DEF ServerInv, TypeOK
  <2>2. sockets[s] \in Socket /\ user \in User
    BY <2>1, SocketTyped
  <2>3. d \in Devices /\ None \notin User
    BY <2>2, ServerAssumption DEF User
  <2>4. old \in User \cup {None}
    BY <2>1, <2>3
  <2>5. sockets[s].phase = "connecting"
    BY DEF HandleConnect
  <2>6. s \in 1 .. Len(sockets)
    BY <2>1
  <2>. HIDE DEF user, d, old
  <2>. QED  BY <2>1, <2>2, <2>3, <2>4, <2>5, <2>6
<1>2. /\ stream \in [User -> 0 .. Len(sockets)]
      /\ userOf \in [Devices -> User \cup {None}]
      /\ \A v \in User : v.device \in Devices
      /\ \A t \in DOMAIN sockets : sockets[t].user \in User /\ t # 0
  BY SocketTyped DEF ServerInv, TypeOK, User
<1>3. ServedOK /\ ServedOK'
  BY ServedFacts, PTL
<1>4. old # None => old.device = d
  BY <1>1 DEF ServerInv, OwnDevice
<1>5. \A v \in User : stream[v] # s
  BY <1>1 DEF ServerInv, Handled
(* What becomes of the websockets.                                          *)
<1>6. /\ DOMAIN opened = DOMAIN sockets
      /\ \A t \in DOMAIN sockets : opened[t].user = sockets[t].user
      /\ \A t \in DOMAIN sockets : t # s => opened[t] = sockets[t]
      /\ opened[s].phase = "open"
  BY <1>1 DEF Socket
<1>7. \/ sockets' = opened
      \/ /\ old # None /\ stream[old] # 0
         /\ sockets' = [opened EXCEPT ![stream[old]].phase = "kicked"]
  BY <1>1 DEF HandleConnect
<1>. HIDE DEF opened
<1>8. /\ DOMAIN sockets' = DOMAIN sockets
      /\ \A t \in DOMAIN sockets :
           /\ sockets'[t].user = sockets[t].user
           /\ sockets'[t].phase = "connecting" <=> sockets[t].phase = "connecting" /\ t # s
  <2>1. CASE sockets' = opened
    <3>1. ASSUME NEW t \in DOMAIN sockets
          PROVE  opened[t].phase = "connecting" <=> sockets[t].phase = "connecting" /\ t # s
      <4>1. CASE t = s
        BY <1>6, <4>1
      <4>2. CASE t # s
        BY <1>6, <4>2
      <4>. QED  BY <4>1, <4>2
    <3>. QED  BY <1>6, <2>1, <3>1
  <2>2. CASE /\ old # None /\ stream[old] # 0
             /\ sockets' = [opened EXCEPT ![stream[old]].phase = "kicked"]
    <3>1. /\ stream[old] \in DOMAIN sockets /\ stream[old] # s
          /\ sockets[stream[old]].phase # "connecting"
      <4>1. Handled
        BY DEF ServerInv
      <4>2. old \in User /\ stream[old] \in 1 .. Len(sockets)
        BY <1>1, <1>2, <2>2
      <4>3. stream[old] # s
        BY <1>5, <4>2
      <4>4. sockets[stream[old]].phase # "connecting"
        BY <2>2, <4>1, <4>2 DEF Handled
      <4>. QED  BY <1>1, <4>2, <4>3, <4>4
    <3>2. \A t \in DOMAIN opened : opened[t] \in Socket
      <4>1. "open" \in Phases
        BY DEF Phases
      <4>2. opened[s] \in Socket
        BY <1>1, <4>1 DEF opened, Socket
      <4>3. ASSUME NEW t \in DOMAIN sockets, t # s PROVE opened[t] \in Socket
        BY <1>1, <1>6, <4>3
      <4>. QED  BY <1>6, <4>2, <4>3
    <3>3. sockets'[stream[old]].phase = "kicked"
          /\ sockets'[stream[old]].user = opened[stream[old]].user
      BY <1>6, <2>2, <3>1, <3>2 DEF Socket
    <3>4. DOMAIN sockets' = DOMAIN opened
          /\ \A t \in DOMAIN opened : t # stream[old] => sockets'[t] = opened[t]
      BY <2>2
    <3>5. ASSUME NEW t \in DOMAIN sockets
          PROVE  /\ sockets'[t].user = sockets[t].user
                 /\ sockets'[t].phase = "connecting"
                      <=> sockets[t].phase = "connecting" /\ t # s
      <4>1. CASE t = stream[old]
        BY <1>6, <3>1, <3>3, <4>1
      <4>2. CASE t # stream[old] /\ t = s
        BY <1>6, <3>4, <4>2
      <4>3. CASE t # stream[old] /\ t # s
        BY <1>6, <3>4, <4>3
      <4>. QED  BY <4>1, <4>2, <4>3
    <3>. QED  BY <1>6, <3>4, <3>5
  <2>. QED  BY <1>7, <2>1, <2>2
<1>. HIDE DEF user
(* What becomes of the streams and the subscriptions.                       *)
<1>9. /\ userOf' = [userOf EXCEPT ![d] = user]
      /\ stream'[user] = s
      /\ \A v \in User : v # user /\ v # old => stream'[v] = stream[v]
      /\ old # None /\ old # user => stream'[old] = 0
  <2>1. CASE old = None
    BY <1>1, <1>2, <2>1 DEF HandleConnect, user
  <2>2. CASE old # None
    <3>1. stream' = [stream EXCEPT ![old] = 0, ![user] = s]
          /\ userOf' = [userOf EXCEPT ![d] = user]
      BY <2>2 DEF HandleConnect, user
    <3>2. old \in User /\ user \in User
      BY <1>1, <2>2
    <3>. HIDE DEF old
    <3>. QED  BY <1>2, <3>1, <3>2
  <2>. QED  BY <2>1, <2>2
<1>10. /\ \A o \in Objects, v \in User : v # old => subscriber'[o][v] = subscriber[o][v]
       /\ \A o \in Objects : old # None => subscriber'[o][old] = 0
  <2>1. CASE old = None
    BY <1>1, <2>1 DEF HandleConnect, user
  <2>2. CASE old # None
    <3>1. subscriber' = Unsubscribed(old) /\ old \in User
      BY <1>1, <2>2 DEF HandleConnect, user
    <3>. QED  BY <3>1, UnsubscribedFacts
  <2>. QED  BY <2>1, <2>2
(* A stream of the device is the old user's, and it is what serves it.       *)
<1>11. \A v \in User : v.device = d /\ stream[v] # 0 => v = old /\ ServedBy[d] = stream[v]
  BY <1>3 DEF ServerInv, OneStreamPerDevice, ServedOK
<1>12. ServedBy[d] # 0 => /\ ServedBy[d] \in DOMAIN sockets /\ ServedBy[d] # s
                          /\ sockets[ServedBy[d]].user = old /\ stream[old] = ServedBy[d]
                          /\ sockets[ServedBy[d]].phase # "connecting" /\ old # None
  BY <1>1, <1>3, <1>5 DEF ServedOK, ServerInv, Handled
<1>13. ServedBy' = [ServedBy EXCEPT ![d] = s]
  <2>1. ASSUME NEW e \in Devices, e # d
        PROVE  ServedBy'[e] = ServedBy[e]
    <3>1. userOf'[e] = userOf[e]
      BY <1>1, <1>2, <1>9, <2>1
    <3>2. CASE userOf[e] = None
      BY <3>1, <3>2 DEF ServedBy
    <3>3. CASE userOf[e] # None
      <4>1. userOf[e] \in User /\ userOf[e].device = e
        BY <1>2, <3>3 DEF ServerInv, OwnDevice
      <4>2. userOf[e] # user /\ userOf[e] # old
        BY <1>1, <1>4, <2>1, <3>3, <4>1
      <4>. QED  BY <1>9, <3>1, <4>1, <4>2 DEF ServedBy
    <3>. QED  BY <3>2, <3>3
  <2>2. ServedBy'[d] = s
    BY <1>1, <1>2, <1>9 DEF ServedBy
  <2>3. ServedBy = [e \in Devices |-> ServedBy[e]] /\ ServedBy' = [e \in Devices |-> ServedBy'[e]]
    BY DEF ServedBy
  <2>. QED  BY <1>1, <2>1, <2>2, <2>3
<1>14. Ended' = Ended \cup ({ServedBy[d]} \ {0})
  <2>1. ASSUME NEW t \in DOMAIN sockets
        PROVE  t \in Ended' <=> t \in Ended \/ (t = ServedBy[d] /\ t # 0)
    <3>1. t \in Ended' <=> sockets'[t].phase # "connecting" /\ stream'[sockets[t].user] # t
      BY <1>8 DEF Ended
    <3>2. t \in Ended <=> sockets[t].phase # "connecting" /\ stream[sockets[t].user] # t
      BY DEF Ended
    <3>3. CASE t = s
      BY <1>1, <1>2, <1>9, <1>12, <3>1, <3>2, <3>3 DEF user
    <3>4. CASE t # s /\ sockets[t].user # user /\ sockets[t].user # old
      BY <1>2, <1>8, <1>9, <1>12, <3>1, <3>2, <3>4
    <3>5. CASE t # s /\ sockets[t].user = user
      <4>1. stream'[user] # t
        BY <1>9, <3>5
      <4>2. stream[user] = t <=> t = ServedBy[d]
        BY <1>1, <1>2, <1>3, <1>12, <3>5, <1>11 DEF ServedOK, ServerInv, StreamsEnd
      <4>. QED  BY <1>2, <1>8, <1>12, <3>1, <3>2, <3>5, <4>1, <4>2
    <3>6. CASE t # s /\ sockets[t].user = old /\ old # user
      <4>1. old # None /\ old \in User /\ stream'[old] # t
        BY <1>1, <1>2, <1>9, <3>6
      <4>2. stream[old] = t <=> t = ServedBy[d]
        BY <1>2, <1>4, <1>11, <1>12, <3>6, <4>1
      <4>. QED  BY <1>2, <1>8, <1>12, <3>1, <3>2, <3>6, <4>1, <4>2
    <3>. QED  BY <3>3, <3>4, <3>5, <3>6
  <2>2. Ended \subseteq DOMAIN sockets /\ Ended' \subseteq DOMAIN sockets
    BY <1>8 DEF Ended
  <2>. QED  BY <1>12, <2>1, <2>2
<1>15. TakesPart' = [o \in Objects |-> TakesPart[o] \ {d}]
  <2>1. ASSUME NEW o \in Objects, NEW v \in User
        PROVE  subscriber'[o][v] # 0 <=> subscriber[o][v] # 0 /\ v.device # d
    <3>1. CASE v.device # d
      BY <1>1, <1>4, <1>10, <3>1
    <3>2. CASE v.device = d
      <4>1. subscriber'[o][v] # 0 => stream'[v] = subscriber'[o][v] /\ userOf'[d] = v
        BY <3>2 DEF ServerInv, NoGhostSubscriber, OneStreamPerDevice
      <4>2. subscriber'[o][v] # 0 => v = user /\ subscriber'[o][v] = s
        BY <1>1, <1>2, <1>9, <4>1
      <4>3. subscriber'[o][v] # 0 => v # old
        BY <1>1, <1>10
      <4>4. subscriber[o][v] # s
        BY <1>1, <1>2, <1>5 DEF ServerInv, NoGhostSubscriber
      <4>. QED  BY <1>10, <3>2, <4>2, <4>3, <4>4
    <3>. QED  BY <3>1, <3>2
  <2>. QED  BY <2>1 DEF TakesPart
<1>16. s \notin Ended /\ \A e \in Devices : ServedBy[e] # s
  <2>1. s \notin Ended
    BY <1>1 DEF Ended
  <2>2. \A e \in Devices : ServedBy[e] # s
    BY <1>1, <1>2, <1>3, <1>5 DEF ServedOK
  <2>. QED  BY <2>1, <2>2
<1>17. Promise!Connect(d, s)
  BY <1>13, <1>14, <1>15, <1>16 DEF Promise!Connect, Promise!Left
<1>18. s \in Sessions
  BY <1>1 DEF Sessions, ServerInv, TypeOK
<1>. QED  BY <1>1, <1>17, <1>18 DEF Promise!SessionNext

(* Subscribe adds the device of a user with a stream, at most, to what subs *)
(* holds; subs is the group's subscriptions but for those of the user.      *)
LEMMA SubscribeAdds ==
  ASSUME ServerInv, NEW u \in User, NEW o \in Objects,
         NEW subs \in [User -> 0 .. Len(sockets)], Subscribe(u, o, subs),
         \A v \in User : subs[v] # 0 => subs[v] = subscriber[o][v]
  PROVE  LET kept == {d \in Devices : \E v \in User : v.device = d /\ subs[v] # 0}
         IN  \/ TakesPart' = [TakesPart EXCEPT ![o] = kept] /\ (stream[u] = 0 \/ subs[u] # 0)
             \/ TakesPart' = [TakesPart EXCEPT ![o] = kept \cup {u.device}] /\ stream[u] # 0
<1>. DEFINE kept == {d \in Devices : \E v \in User : v.device = d /\ subs[v] # 0}
<1>1. /\ subscriber \in [Objects -> [User -> 0 .. Len(sockets)]]
      /\ stream \in [User -> 0 .. Len(sockets)]
      /\ \A v \in User : v.device \in Devices
  BY DEF ServerInv, TypeOK, User
<1>2. \A p \in Objects : p # o => subscriber'[p] = subscriber[p]
  BY <1>1 DEF Subscribe
<1>3. \A p \in Objects : p # o => TakesPart'[p] = TakesPart[p]
  BY <1>2 DEF TakesPart
<1>4. DOMAIN TakesPart = Objects /\ DOMAIN TakesPart' = Objects
      /\ TakesPart = [p \in Objects |-> TakesPart[p]]
      /\ TakesPart' = [p \in Objects |-> TakesPart'[p]]
  BY DEF TakesPart
<1>5. CASE stream[u] = 0 \/ subs[u] # 0
  <2>1. subscriber'[o] = subs
    BY <1>1, <1>5 DEF Subscribe
  <2>2. TakesPart'[o] = kept
    BY <2>1 DEF TakesPart
  <2>. QED  BY <1>3, <1>4, <1>5, <2>2
<1>6. CASE ~(stream[u] = 0 \/ subs[u] # 0)
  <2>1. \A v \in User : subscriber'[o][v] = IF v = u THEN stream[u]
                                           ELSE IF v.device = u.device THEN 0 ELSE subs[v]
    BY <1>1, <1>6 DEF Subscribe
  <2>2. TakesPart'[o] = kept \cup {u.device}
    <3>1. ASSUME NEW d \in Devices
          PROVE  d \in TakesPart'[o] <=> d \in kept \cup {u.device}
      <4>1. CASE d = u.device
        BY <1>1, <1>6, <2>1, <4>1 DEF TakesPart
      <4>2. CASE d # u.device
        BY <2>1, <4>2 DEF TakesPart
      <4>. QED  BY <4>1, <4>2
    <3>2. TakesPart'[o] \subseteq Devices /\ kept \cup {u.device} \subseteq Devices
      BY <1>1 DEF TakesPart
    <3>. QED  BY <3>1, <3>2
  <2>. QED  BY <1>3, <1>4, <1>6, <2>2
<1>. QED  BY <1>5, <1>6

(* A user with a stream is the one its device is served through.            *)
LEMMA StreamServes ==
  ASSUME ServerInv, NEW u \in User, stream[u] # 0
  PROVE  u.device \in Devices /\ u.device \in Promise!Served
<1>1. u.device \in Devices
  BY DEF User
<1>. QED  BY <1>1, ServedFacts DEF ServedOK, Promise!Served

(* The steps of a runner: a device joins a group, or a group is replaced.   *)
LEMMA RunImplements ==
  ASSUME ServerInv, NEW o \in Objects, NEW r \in Runners, Run(o, r)
  PROVE  [Promise!SessionNext]_(Promise!sessionVars)
<1>0. TypeOK
  BY DEF ServerInv
<1>1. CASE HandleUnconnected(o, r)
  BY <1>1, QuietImplements DEF HandleUnconnected
<1>2. CASE StartCreateGroup(o, r)
  BY <1>2, QuietImplements DEF StartCreateGroup
<1>3. CASE HandleInGroup(o, r)
  <2>. DEFINE u == Head(queue[o][r]).user
              subs == IF Head(queue[o][r]).init THEN [subscriber[o] EXCEPT ![u] = 0]
                                                ELSE subscriber[o]
              kept == {d \in Devices : \E v \in User : v.device = d /\ subs[v] # 0}
  <2>1. /\ u \in User /\ stream[u] # 0 /\ Subscribe(u, o, subs)
        /\ UNCHANGED <<sockets, userOf, stream>>
    BY <1>0, <1>3, CommandTyped DEF HandleInGroup
  <2>2. subscriber[o] \in [User -> 0 .. Len(sockets)] /\ 0 \in 0 .. Len(sockets)
    BY <1>0 DEF TypeOK
  <2>3. /\ subs \in [User -> 0 .. Len(sockets)]
        /\ \A v \in User : /\ subs[v] # 0 => subs[v] = subscriber[o][v]
                           /\ v # u => subs[v] = subscriber[o][v]
        /\ subs[u] # 0 => subs = subscriber[o]
    BY <2>1, <2>2
  <2>4. u.device \in Devices /\ u.device \in Promise!Served
    BY <2>1, StreamServes
  <2>. HIDE DEF subs, u
  <2>5. kept \subseteq TakesPart[o] /\ TakesPart[o] \subseteq kept \cup {u.device}
    BY <2>3 DEF TakesPart
  <2>6. ServedBy' = ServedBy /\ Ended' = Ended
    BY <2>1 DEF ServedBy, Ended
  <2>7. TakesPart = [p \in Objects |-> TakesPart[p]]
    BY DEF TakesPart
  <2>8. CASE TakesPart' = [TakesPart EXCEPT ![o] = kept \cup {u.device}]
    <3>1. kept \cup {u.device} = TakesPart[o] \cup {u.device}
      BY <2>5
    <3>2. Promise!Join(u.device, o)
      BY <2>4, <2>6, <2>8, <3>1 DEF Promise!Join
    <3>. QED  BY <2>4, <3>2 DEF Promise!SessionNext
  <2>9. CASE TakesPart' = [TakesPart EXCEPT ![o] = kept] /\ subs[u] # 0
    <3>1. kept = TakesPart[o]
      BY <2>3, <2>9 DEF TakesPart
    <3>2. TakesPart' = TakesPart
      BY <2>7, <2>9, <3>1
    <3>. QED  BY <2>6, <3>2 DEF Promise!sessionVars
  <2>. QED  BY <2>1, <2>3, <2>8, <2>9, SubscribeAdds
<1>4. CASE FinishCreateGroup(o, r)
  <2>. DEFINE u == creating[o][r]
              subs == [v \in User |-> 0]
              kept == {d \in Devices : \E v \in User : v.device = d /\ subs[v] # 0}
  <2>1. u \in User /\ u.device \in Devices
    BY <1>0, <1>4 DEF FinishCreateGroup, TypeOK, User
  <2>2. /\ Subscribe(u, o, subs)
        /\ UNCHANGED <<sockets, userOf, stream>>
    BY <1>4 DEF FinishCreateGroup
  <2>3. subs \in [User -> 0 .. Len(sockets)] /\ kept = {}
        /\ \A v \in User : subs[v] # 0 => subs[v] = subscriber[o][v]
    BY <1>0 DEF TypeOK
  <2>4. ServedBy' = ServedBy /\ Ended' = Ended
    BY <2>2 DEF ServedBy, Ended
  <2>. HIDE DEF subs, u
  <2>5. \/ TakesPart' = [TakesPart EXCEPT ![o] = {}]
        \/ TakesPart' = [TakesPart EXCEPT ![o] = {u.device}] /\ stream[u] # 0
    BY <2>1, <2>2, <2>3, SubscribeAdds
  <2>6. \E joined \in SUBSET ({u.device} \cap Promise!Served) :
          TakesPart' = [TakesPart EXCEPT ![o] = joined]
    BY <2>1, <2>5, StreamServes
  <2>7. Promise!Reload(u.device, o)
    BY <2>4, <2>6 DEF Promise!Reload
  <2>. QED  BY <2>1, <2>7 DEF Promise!SessionNext
<1>. QED  BY <1>1, <1>2, <1>3, <1>4 DEF Run

(* Every step of the server is one of DeviceSessions, or none.              *)
LEMMA NextImplements ==
  ServerInv /\ ServerInv' /\ [Next]_vars => [Promise!SessionNext]_(Promise!sessionVars)
<1>. SUFFICES ASSUME ServerInv, ServerInv', [Next]_vars
              PROVE  [Promise!SessionNext]_(Promise!sessionVars)
  OBVIOUS
<1>1. CASE ClockTick
  BY <1>1, QuietImplements DEF ClockTick
<1>2. CASE Connection
  BY <1>2, StartConnectImplements, ConnectImplements, StopImplements, DisconnectImplements
     DEF Connection
<1>3. CASE Receive
  BY <1>3, QuietImplements DEF Receive, HandleClientMessage, HandleStreamMessage, SendCommand
<1>4. CASE \E o \in Objects : RemoveInactiveGroup(o) \/ \E r \in Runners : Run(o, r)
  BY <1>4, QuietImplements, RunImplements DEF RemoveInactiveGroup
<1>5. CASE \E u \in User : LagBehind(u)
  BY <1>5, QuietImplements DEF LagBehind
<1>6. CASE UNCHANGED vars
  BY <1>6, QuietImplements DEF vars
<1>. QED  BY <1>1, <1>2, <1>3, <1>4, <1>5, <1>6 DEF Next

(* The server keeps what DeviceSessions promises a device: one connection   *)
(* serves it, a connection that was replaced or has ended never does again, *)
(* and in that very step the device leaves every group, whichever of its    *)
(* users subscribed (Handler<Connect>, Handler<Disconnect>, remove_user).   *)
THEOREM ServerImplementsSessions == Spec => ImplementsSessions
<1>. QED  BY InitImplements, ServerInvariant, NextImplements, PTL
          DEF Spec, ImplementsSessions, Promise!SessionSpec

(* Whatever is in the mailbox or with the runners, a connection that begins *)
(* or ends to serve a device takes the device out of every group in that    *)
(* step, and one that has ended does not begin to serve a device again      *)
(* (Handler<Connect>, Handler<Disconnect>, remove_user).                    *)
THEOREM ReplacedLeavesGroups ==
  Spec => [][\A d \in Devices : ServedBy[d] # ServedBy'[d] =>
               /\ \A o \in Objects : d \notin TakesPart'[o]
               /\ ServedBy'[d] \in Ended => ServedBy'[d] = 0]_vars
<1>1. [Promise!SessionNext]_(Promise!sessionVars) =>
        \A d \in Devices : ServedBy[d] # ServedBy'[d] =>
          /\ \A o \in Objects : d \notin TakesPart'[o]
          /\ ServedBy'[d] \in Ended => ServedBy'[d] = 0
  <2>. SUFFICES ASSUME [Promise!SessionNext]_(Promise!sessionVars),
                       NEW d \in Devices, ServedBy[d] # ServedBy'[d]
                PROVE  /\ \A o \in Objects : d \notin TakesPart'[o]
                       /\ ServedBy'[d] \in Ended => ServedBy'[d] = 0
    OBVIOUS
  <2>1. \A c : \A e \in Devices :
          ServedBy' = [ServedBy EXCEPT ![e] = c] => e = d /\ ServedBy'[d] = c
    BY DEF ServedBy
  <2>2. PICK e \in Devices :
          Promise!Disconnect(e) \/ \E c \in Sessions : Promise!Connect(e, c)
    BY DEF Promise!SessionNext, Promise!Join, Promise!Reload, Promise!sessionVars
  <2>3. TakesPart' = Promise!Left(d) /\ (ServedBy'[d] \in Ended => ServedBy'[d] = 0)
    BY <2>1, <2>2 DEF Promise!Disconnect, Promise!Connect
  <2>. QED  BY <2>3 DEF Promise!Left
<1>. QED  BY <1>1, ServerImplementsSessions, PTL DEF ImplementsSessions, Promise!SessionSpec
=============================================================================
