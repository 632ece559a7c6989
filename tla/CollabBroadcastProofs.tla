----------------------- MODULE CollabBroadcastProofs -----------------------
(***************************************************************************)
(* Theorems about CollabBroadcast, for any sets of clients and updates and *)
(* any capacity of the channel: its type invariant, and that no update     *)
(* falls between an init sync and the subscription it renews.              *)
(***************************************************************************)
EXTENDS CollabBroadcast, SequenceTheorems, FiniteSetTheorems, TLAPS

(* The messages in a queue.                                                *)
Members(s) == {s[n] : n \in DOMAIN s}

(* There is one init sync in the queue at most.                            *)
OneInit(s) ==
  \A m, n \in DOMAIN s : s[m].type = "init" /\ s[n].type = "init" => m = n

(* Init sync id has not been handled by the runner.                        *)
Unhandled(id) ==
  /\ subs[id] = NoSubscription
  /\ \A j \in Ids :
       /\ \A m \in Members(subs[j].inbox) : m.type = "init" => m.id # id
       /\ \A m \in Members(subs[j].out) : m.type = "reply" => m.seq # id

(* What is nobody's subscription is none.                                  *)
Named == \A id \in Ids : subs[id].client = None => subs[id] = NoSubscription

(* A client has what it sends.                                             *)
Own ==
  /\ \A c \in Clients : \A m \in Members(up[c]) : m.ops \subseteq replica[c]
  /\ \A id \in Ids, c \in Clients : subs[id].client = c =>
       \A m \in Members(subs[id].inbox) : m.ops \subseteq replica[c]

(* The group has a client's own subscription for it.                       *)
CurrentOwn == \A c \in Clients : current[c] # 0 => subs[current[c]].client = c

(* Init syncs are numbered in the order of their making.                   *)
Numbered ==
  /\ \A c \in Clients : asking[c] <= inits
  /\ \A id \in Ids :
       /\ subs[id].client # None => id <= inits
       /\ \A m \in Members(subs[id].inbox) : m.type = "init" => m.id <= inits
       /\ \A m \in Members(subs[id].out) : m.type = "reply" => m.seq <= inits
  /\ \A c, d \in Clients : asking[c] # 0 /\ asking[c] = asking[d] => c = d

(* An init sync on its way to the runner is the one in the client's sink.  *)
Pending ==
  \A c \in Clients :
    /\ OneInit(up[c])
    /\ \A m \in Members(up[c]) : m.type = "init" =>
         asking[c] # 0 /\ m.id = asking[c] /\ Unhandled(m.id)

(* Update u is in the client's document, or a broadcast brings it.         *)
Reaches(c, u) ==
  \/ u \in replica[c]
  \/ \E id \in Ids : subs[id].client = c /\
       \E m \in Members(subs[id].out) : m.type = "broadcast" /\ u \in m.ops
  \/ \E n \in DOMAIN log :
       n > subs[current[c]].cursor /\ log[n].origin # c /\ u \in log[n].ops

(* Whichever reply ends an init sync, it and the broadcasts bring all.     *)
Complete ==
  \A c \in Clients : Forwarding(c) =>
    /\ asking[c] = 0 => \A u \in doc : Reaches(c, u)
    /\ asking[c] # 0 => \A id \in Ids : subs[id].client = c =>
         \A m \in Members(subs[id].out) : m.type = "reply" /\ m.seq = asking[c] =>
           \A u \in doc : u \in m.ops \/ Reaches(c, u)

BroadcastInv ==
  TypeOK /\ Named /\ Own /\ CurrentOwn /\ Numbered /\ Pending /\ Complete

-----------------------------------------------------------------------------
(* What appending to a queue does.                                         *)
LEMMA MembersAppend ==
  ASSUME NEW S, NEW s \in Seq(S), NEW e \in S
  PROVE  /\ Append(s, e) \in Seq(S)
         /\ Members(Append(s, e)) = Members(s) \cup {e}
<1>1. /\ Append(s, e) \in Seq(S)
      /\ DOMAIN Append(s, e) = 1 .. Len(s) + 1
      /\ \A n \in 1 .. Len(s) : Append(s, e)[n] = s[n]
      /\ Append(s, e)[Len(s) + 1] = e
  OBVIOUS
<1>2. DOMAIN s = 1 .. Len(s) /\ Len(s) \in Nat
  OBVIOUS
<1>3. Members(Append(s, e)) \subseteq Members(s) \cup {e}
  BY <1>1, <1>2 DEF Members
<1>4. Members(s) \subseteq Members(Append(s, e))
  BY <1>1, <1>2 DEF Members
<1>5. e \in Members(Append(s, e))
  BY <1>1, <1>2 DEF Members
<1>6. QED
  BY <1>1, <1>3, <1>4, <1>5

(* What taking the head of a queue does.                                   *)
LEMMA MembersTail ==
  ASSUME NEW S, NEW s \in Seq(S), s # <<>>
  PROVE  /\ Head(s) \in S /\ Tail(s) \in Seq(S)
         /\ Members(s) = Members(Tail(s)) \cup {Head(s)}
<1>1. /\ Head(s) \in S /\ Tail(s) \in Seq(S)
      /\ Len(s) \in Nat \ {0}
      /\ DOMAIN Tail(s) = 1 .. Len(s) - 1
      /\ \A n \in 1 .. Len(s) - 1 : Tail(s)[n] = s[n + 1]
      /\ Head(s) = s[1]
      /\ DOMAIN s = 1 .. Len(s)
  BY HeadTailProperties
<1>2. Members(Tail(s)) \subseteq Members(s)
  BY <1>1 DEF Members
<1>3. Head(s) \in Members(s)
  BY <1>1 DEF Members
<1>4. ASSUME NEW m \in Members(s), m # Head(s) PROVE m \in Members(Tail(s))
  <2>1. PICK n \in 1 .. Len(s) : m = s[n]
    BY <1>1, <1>4 DEF Members
  <2>2. n - 1 \in 1 .. Len(s) - 1 /\ Tail(s)[n - 1] = m
    BY <1>1, <1>4, <2>1
  <2>3. QED
    BY <1>1, <2>2 DEF Members
<1>5. QED
  BY <1>1, <1>2, <1>3, <1>4

(* The members of a queue, and of an empty one.                            *)
LEMMA MembersTyped ==
  ASSUME NEW S, NEW s \in Seq(S)
  PROVE  Members(s) \subseteq S /\ Members(<<>>) = {} /\ <<>> \in Seq(S)
BY DEF Members

(* The empty queues.                                                       *)
LEMMA EmptySeqs == <<>> \in Seq(ClientMessage) /\ <<>> \in Seq(ServerMessage)
BY EmptySeq

(* A second init sync is only queued when there is none.                   *)
LEMMA OneInitAppend ==
  ASSUME NEW S, NEW s \in Seq(S), NEW e \in S, OneInit(s),
         e.type = "init" => \A m \in Members(s) : m.type # "init"
  PROVE  OneInit(Append(s, e))
BY DEF OneInit, Members

(* Behind an init sync there is no other.                                  *)
LEMMA OneInitTail ==
  ASSUME NEW S, NEW s \in Seq(S), s # <<>>, OneInit(s)
  PROVE  /\ OneInit(Tail(s))
         /\ Head(s).type = "init" => \A m \in Members(Tail(s)) : m.type # "init"
<1>1. /\ Len(s) \in Nat \ {0}
      /\ DOMAIN Tail(s) = 1 .. Len(s) - 1
      /\ \A n \in 1 .. Len(s) - 1 : Tail(s)[n] = s[n + 1]
      /\ Head(s) = s[1]
      /\ DOMAIN s = 1 .. Len(s)
  BY HeadTailProperties
<1>2. QED
  BY <1>1 DEF OneInit, Members

-----------------------------------------------------------------------------
(* The initial states.                                                     *)
LEMMA InitHolds == Init => BroadcastInv
<1> SUFFICES ASSUME Init PROVE BroadcastInv
  OBVIOUS
<1>1. NoSubscription \in Subscription /\ 0 \in 0 .. MaxInitSyncs
  BY BroadcastAssumption DEF NoSubscription, Subscription
<1>2. TypeOK
  BY <1>1 DEF Init, TypeOK, NoSubscription
<1>3. Members(<<>>) = {} /\ OneInit(<<>>)
  BY DEF Members, OneInit
<1>4. /\ \A id \in Ids : subs[id].client = None /\ subs[id] = NoSubscription
                      /\ subs[id].inbox = <<>> /\ subs[id].out = <<>>
      /\ \A c \in Clients : up[c] = <<>> /\ current[c] = 0 /\ asking[c] = 0
      /\ inits = 0
  BY DEF Init, NoSubscription
<1>5. Named
  BY <1>4 DEF Named
<1>6. Own
  BY <1>3, <1>4, BroadcastAssumption DEF Own
<1>7. CurrentOwn
  BY <1>4 DEF CurrentOwn
<1>8. Numbered
  BY <1>3, <1>4 DEF Numbered
<1>9. Pending
  BY <1>3, <1>4 DEF Pending
<1>10. Complete
  BY <1>4 DEF Complete, Forwarding
<1>11. QED
  BY <1>2, <1>5, <1>6, <1>7, <1>8, <1>9, <1>10 DEF BroadcastInv

-----------------------------------------------------------------------------
(* The type invariant.                                                     *)

(* What the messages are made of.                                          *)
LEMMA MessageFacts ==
  ASSUME TypeOK
  PROVE  /\ \A id \in 0 .. MaxInitSyncs, ops \in SUBSET Updates :
              /\ InitSync(id, ops) \in ClientMessage
              /\ UpdateSync(ops) \in ClientMessage
              /\ Reply(id, ops) \in ServerMessage
         /\ \A n \in 1 .. Len(log) : Forwarded(n) \in ServerMessage
<1>1. 0 \in 0 .. MaxInitSyncs
  BY BroadcastAssumption
<1>2. \A id \in 0 .. MaxInitSyncs, ops \in SUBSET Updates :
        /\ InitSync(id, ops) \in ClientMessage
        /\ UpdateSync(ops) \in ClientMessage
        /\ Reply(id, ops) \in ServerMessage
  BY <1>1, BroadcastAssumption
  DEF InitSync, UpdateSync, Reply, ClientMessage, ServerMessage
<1>3. ASSUME NEW n \in 1 .. Len(log) PROVE Forwarded(n) \in ServerMessage
  <2>1. log[n] \in Broadcast
    BY <1>3 DEF TypeOK
  <2>2. QED
    BY <1>3, <2>1 DEF Forwarded, ServerMessage, Broadcast
<1>4. QED
  BY <1>2, <1>3

(* The queues of a subscription stay queues when an end of them changes.   *)
LEMMA QueueFacts ==
  ASSUME TypeOK, NEW id \in Ids
  PROVE  /\ subs[id] \in Subscription
         /\ subs[id].inbox # <<>> =>
              /\ Head(subs[id].inbox) \in ClientMessage
              /\ Tail(subs[id].inbox) \in Seq(ClientMessage)
         /\ subs[id].out # <<>> =>
              /\ Head(subs[id].out) \in ServerMessage
              /\ Tail(subs[id].out) \in Seq(ServerMessage)
         /\ \A m \in ClientMessage : Append(subs[id].inbox, m) \in Seq(ClientMessage)
         /\ \A m \in ServerMessage : Append(subs[id].out, m) \in Seq(ServerMessage)
<1>1. /\ subs[id] \in Subscription
      /\ subs[id].inbox \in Seq(ClientMessage) /\ subs[id].out \in Seq(ServerMessage)
  BY DEF TypeOK, Subscription
<1>2. QED
  BY <1>1, MembersAppend, MembersTail

(* The same of the messages of a client.                                   *)
LEMMA UpFacts ==
  ASSUME TypeOK, NEW c \in Clients
  PROVE  /\ up[c] # <<>> => Head(up[c]) \in ClientMessage /\ Tail(up[c]) \in Seq(ClientMessage)
         /\ \A m \in ClientMessage : Append(up[c], m) \in Seq(ClientMessage)
                                  /\ <<m>> \in Seq(ClientMessage)
<1>1. up[c] \in Seq(ClientMessage)
  BY DEF TypeOK
<1>2. QED
  BY <1>1, MembersAppend, MembersTail

(* A step that changes one subscription, and nothing else that has a type, *)
(* keeps the types.                                                        *)
LEMMA SubscriptionTyped ==
  ASSUME TypeOK, NEW id \in Ids, NEW new \in Subscription,
         subs' = [subs EXCEPT ![id] = new], new.cursor <= Len(log)
  PROVE  subs' \in [Ids -> Subscription] /\ \A j \in Ids : subs'[j].cursor <= Len(log)
BY DEF TypeOK

(* A client can name another init sync.                                    *)
LEMMA InitsFacts ==
  ASSUME TypeOK
  PROVE  /\ inits < MaxInitSyncs => inits + 1 \in Ids /\ inits + 1 \in 0 .. MaxInitSyncs
         /\ Spare => inits < MaxInitSyncs
<1>1. Cardinality(Clients \ conn) \in Nat
  BY BroadcastAssumption, FS_Difference, FS_CardinalityType
<1>2. inits \in Nat /\ MaxInitSyncs \in Nat
  BY BroadcastAssumption DEF TypeOK
<1>3. QED
  BY <1>1, <1>2 DEF Spare, Ids

(* What try_init_sync does to the types.                                   *)
LEMMA TryInitSyncTyped ==
  ASSUME TypeOK, NEW c, TryInitSync(c)
  PROVE  /\ asking' \in [Clients -> 0 .. MaxInitSyncs]
         /\ inits' \in 0 .. MaxInitSyncs
         /\ up' \in [Clients -> Seq(ClientMessage)]
<1>1. CASE UNCHANGED <<asking, inits, up>>
  BY <1>1 DEF TypeOK
<1>2. CASE /\ Spare
           /\ inits' = inits + 1
           /\ asking' = [asking EXCEPT ![c] = inits + 1]
           /\ up' = [up EXCEPT ![c] = Append(@, InitSync(inits + 1, replica[c]))]
  <2>1. inits + 1 \in 0 .. MaxInitSyncs
    BY <1>2, InitsFacts
  <2>2. CASE c \in Clients
    <3>1. InitSync(inits + 1, replica[c]) \in ClientMessage
      BY <2>1, <2>2, MessageFacts DEF TypeOK
    <3>2. Append(up[c], InitSync(inits + 1, replica[c])) \in Seq(ClientMessage)
      BY <2>2, <3>1, UpFacts
    <3>3. QED
      BY <1>2, <2>1, <3>2 DEF TypeOK
  <2>3. CASE c \notin Clients
    BY <1>2, <2>1, <2>3 DEF TypeOK
  <2>4. QED
    BY <2>2, <2>3
<1>3. QED
  BY <1>1, <1>2 DEF TryInitSync

(* Every step keeps the types.                                             *)
LEMMA TypeStep == TypeOK /\ Named /\ [Next]_vars => TypeOK'
<1> SUFFICES ASSUME TypeOK, Named, [Next]_vars PROVE TypeOK'
  OBVIOUS
<1>1. ASSUME NEW c \in Clients, NEW u \in Updates, Edit(c, u) PROVE TypeOK'
  <2>1. Append(up[c], UpdateSync({u})) \in Seq(ClientMessage)
    BY MessageFacts, UpFacts, BroadcastAssumption
  <2>2. up' \in [Clients -> Seq(ClientMessage)]
    BY <1>1, <2>1 DEF Edit, TypeOK
  <2>3. replica' \in [Clients -> SUBSET Updates]
    BY <1>1 DEF Edit, TypeOK
  <2>4. QED
    BY <1>1, <2>2, <2>3 DEF Edit, TypeOK, serverVars
<1>2. ASSUME NEW c \in Clients, Connect(c) PROVE TypeOK'
  <2>1. inits + 1 \in 0 .. MaxInitSyncs
    BY <1>2, InitsFacts DEF Connect
  <2>2. InitSync(inits + 1, replica[c]) \in ClientMessage
    BY <2>1, MessageFacts DEF TypeOK
  <2>3. <<InitSync(inits + 1, replica[c])>> \in Seq(ClientMessage)
    BY <2>2, UpFacts
  <2>4. up' \in [Clients -> Seq(ClientMessage)]
    BY <1>2, <2>3 DEF Connect, TypeOK
  <2>5. QED
    BY <1>2, <2>1, <2>4 DEF Connect, TypeOK, serverVars
<1>3. ASSUME NEW c \in Clients, Disconnect(c) PROVE TypeOK'
  <2>0. <<>> \in Seq(ServerMessage) /\ <<>> \in Seq(ClientMessage) /\ Len(log) \in Nat
    BY EmptySeq DEF TypeOK
  <2>1. ASSUME NEW id \in Ids PROVE subs'[id] \in Subscription /\ subs'[id].cursor <= Len(log)
    <3>1. subs'[id] = IF subs[id].client = c
            THEN [subs[id] EXCEPT !.open = FALSE, !.cursor = 0, !.sinkOn = FALSE, !.out = <<>>]
            ELSE subs[id]
      BY <1>3 DEF Disconnect
    <3>2. subs[id] \in Subscription /\ subs[id].cursor <= Len(log)
      BY DEF TypeOK
    <3>3. CASE subs[id].client = c
      <4> DEFINE new == [subs[id] EXCEPT !.open = FALSE, !.cursor = 0,
                                         !.sinkOn = FALSE, !.out = <<>>]
      <4>1. new \in Subscription
        BY <2>0, <3>2 DEF Subscription
      <4>2. new.cursor = 0
        BY <3>2 DEF Subscription
      <4>3. subs'[id] = new
        BY <3>1, <3>3
      <4> HIDE DEF new
      <4>4. QED
        BY <2>0, <4>1, <4>2, <4>3
    <3>4. CASE subs[id].client # c
      BY <3>1, <3>2, <3>4
    <3>5. QED
      BY <3>3, <3>4
  <2>2. subs' \in [Ids -> Subscription]
    BY <1>3, <2>1 DEF Disconnect
  <2>3. up' \in [Clients -> Seq(ClientMessage)]
    BY <1>3, <2>0 DEF Disconnect, TypeOK
  <2>4. current' \in [Clients -> 0 .. MaxInitSyncs]
    <3>1. 0 \in 0 .. MaxInitSyncs
      BY BroadcastAssumption
    <3>2. QED
      BY <1>3, <3>1 DEF Disconnect, TypeOK
  <2>5. QED
    BY <1>3, <2>1, <2>2, <2>3, <2>4 DEF Disconnect, TypeOK, clientVars
<1>4. ASSUME NEW id \in Ids, ReceiveBroadcast(id) PROVE TypeOK'
  <2> DEFINE new == [subs[id] EXCEPT !.out = Tail(@)]
             msg == Head(subs[id].out)
  <2>1. subs' = [subs EXCEPT ![id] = new]
    BY <1>4 DEF ReceiveBroadcast, TypeOK
  <2>2. new \in Subscription /\ new.cursor <= Len(log)
    <3>1. subs[id].out # <<>>
      BY <1>4 DEF ReceiveBroadcast, Arrived
    <3>2. /\ subs[id] \in Subscription /\ Tail(subs[id].out) \in Seq(ServerMessage)
          /\ subs[id].cursor <= Len(log)
      BY <3>1, QueueFacts DEF TypeOK
    <3>3. new \in Subscription
      BY <3>2 DEF Subscription
    <3>4. new.cursor = subs[id].cursor
      BY <3>2 DEF Subscription
    <3>5. QED
      BY <3>2, <3>3, <3>4
  <2>3. subs' \in [Ids -> Subscription] /\ \A j \in Ids : subs'[j].cursor <= Len(log)
    BY <2>1, <2>2, SubscriptionTyped
  <2>4. msg \in ServerMessage
    BY <1>4, QueueFacts DEF ReceiveBroadcast, Arrived
  <2>5. /\ seen' \in [Clients -> Nat]
        /\ replica' \in [Clients -> SUBSET Updates]
    BY <1>4, <2>4 DEF ReceiveBroadcast, TypeOK, ServerMessage
  <2>6. \/ TryInitSync(subs[id].client)
        \/ UNCHANGED <<asking, inits, up>>
    BY <1>4 DEF ReceiveBroadcast
  <2>7. /\ asking' \in [Clients -> 0 .. MaxInitSyncs]
        /\ inits' \in 0 .. MaxInitSyncs
        /\ up' \in [Clients -> Seq(ClientMessage)]
    BY <2>6, TryInitSyncTyped DEF TypeOK
  <2>8. QED
    BY <1>4, <2>3, <2>5, <2>7 DEF ReceiveBroadcast, TypeOK
<1>5. ASSUME NEW id \in Ids, ReceiveReply(id) PROVE TypeOK'
  <2> DEFINE new == [subs[id] EXCEPT !.out = Tail(@)]
             msg == Head(subs[id].out)
             c == subs[id].client
             answer == replica[c] \ msg.ops
  <2>1. subs' = [subs EXCEPT ![id] = new]
    BY <1>5 DEF ReceiveReply, TypeOK
  <2>2. new \in Subscription /\ new.cursor <= Len(log)
    <3>1. subs[id].out # <<>>
      BY <1>5 DEF ReceiveReply, Arrived
    <3>2. /\ subs[id] \in Subscription /\ Tail(subs[id].out) \in Seq(ServerMessage)
          /\ subs[id].cursor <= Len(log)
      BY <3>1, QueueFacts DEF TypeOK
    <3>3. new \in Subscription
      BY <3>2 DEF Subscription
    <3>4. new.cursor = subs[id].cursor
      BY <3>2 DEF Subscription
    <3>5. QED
      BY <3>2, <3>3, <3>4
  <2>3. subs' \in [Ids -> Subscription] /\ \A j \in Ids : subs'[j].cursor <= Len(log)
    BY <2>1, <2>2, SubscriptionTyped
  <2>4. msg \in ServerMessage /\ subs[id].out # <<>>
    BY <1>5, QueueFacts DEF ReceiveReply, Arrived
  <2>5. c \in Clients
    BY <2>4, QueueFacts DEF Named, Subscription, NoSubscription
  <2>6. replica' \in [Clients -> SUBSET Updates] /\ asking' \in [Clients -> 0 .. MaxInitSyncs]
    <3>1. msg.ops \in SUBSET Updates /\ 0 \in 0 .. MaxInitSyncs
      BY <2>4, BroadcastAssumption DEF ServerMessage
    <3>2. \/ UNCHANGED <<replica, asking>>
          \/ /\ asking' = [asking EXCEPT ![c] = 0]
             /\ replica' = [replica EXCEPT ![c] = @ \cup msg.ops]
      BY <1>5 DEF ReceiveReply
    <3> HIDE DEF msg, c
    <3>3. QED
      BY <2>5, <3>1, <3>2 DEF TypeOK
  <2>7. Append(up[c], UpdateSync(answer)) \in Seq(ClientMessage)
    <3>1. answer \in SUBSET Updates
      BY <2>5 DEF TypeOK
    <3>2. UpdateSync(answer) \in ClientMessage
      BY <3>1, MessageFacts, BroadcastAssumption
    <3>3. QED
      BY <2>5, <3>2, UpFacts
  <2>8. up' \in [Clients -> Seq(ClientMessage)]
    <3>1. up' = up \/ up' = [up EXCEPT ![c] = Append(@, UpdateSync(answer))]
      BY <1>5 DEF ReceiveReply
    <3>2. QED
      BY <3>1, <2>7 DEF TypeOK
  <2>9. QED
    BY <1>5, <2>3, <2>6, <2>8 DEF ReceiveReply, TypeOK
<1>6. ASSUME NEW c \in Clients, HandleMessage(c) PROVE TypeOK'
  <2> DEFINE msg == Head(up[c])
             renewed == IF msg.type = "init" THEN [subs EXCEPT ![msg.id] = NewSubscription(c)]
                                             ELSE subs
  <2>1. msg \in ClientMessage /\ Tail(up[c]) \in Seq(ClientMessage)
    BY <1>6, UpFacts DEF HandleMessage
  <2>2. NewSubscription(c) \in Subscription /\ NewSubscription(c).cursor = Len(log)
    <3>1. Len(log) \in Nat /\ <<>> \in Seq(ServerMessage) /\ <<>> \in Seq(ClientMessage)
      BY EmptySeq DEF TypeOK
    <3>2. NoSubscription \in Subscription
      BY <3>1 DEF NoSubscription, Subscription
    <3>3. QED
      BY <3>1, <3>2 DEF NewSubscription, Subscription
  <2>3. \A id \in Ids : renewed[id] \in Subscription /\ renewed[id].cursor <= Len(log)
    BY <2>2 DEF TypeOK
  <2>4. \A id \in Ids : Append(renewed[id].inbox, msg) \in Seq(ClientMessage)
    BY <2>1, <2>3, MembersAppend DEF Subscription
  <2> HIDE DEF renewed, msg
  <2>5. subs' = [id \in Ids |->
           IF renewed[id].client = c /\ renewed[id].open /\ renewed[id].streamOn
             THEN [renewed[id] EXCEPT !.inbox = Append(@, msg)]
             ELSE renewed[id]]
    BY <1>6 DEF HandleMessage, renewed, msg
  <2>6. ASSUME NEW id \in Ids
        PROVE  subs'[id] \in Subscription /\ subs'[id].cursor <= Len(log)
    <3>1. /\ [renewed[id] EXCEPT !.inbox = Append(@, msg)] \in Subscription
          /\ [renewed[id] EXCEPT !.inbox = Append(@, msg)].cursor = renewed[id].cursor
      BY <2>3, <2>4 DEF Subscription
    <3>2. QED
      BY <2>3, <2>5, <3>1
  <2>7. subs' \in [Ids -> Subscription]
    BY <2>5, <2>6
  <2>8. up' \in [Clients -> Seq(ClientMessage)]
    BY <1>6, <2>1 DEF HandleMessage, TypeOK
  <2>9. current' \in [Clients -> 0 .. MaxInitSyncs]
    BY <1>6, <2>1 DEF HandleMessage, TypeOK, ClientMessage, msg
  <2>10. QED
    BY <1>6, <2>6, <2>7, <2>8, <2>9 DEF HandleMessage, TypeOK, clientVars
<1>7. ASSUME NEW id \in Ids, StreamReplies(id) PROVE TypeOK'
  <2> DEFINE msg == Head(subs[id].inbox)
             new == [subs[id] EXCEPT !.inbox = Tail(@),
                       !.out = IF subs[id].open THEN Append(@, Reply(msg.id, doc)) ELSE @]
  <2>1. subs' = [subs EXCEPT ![id] = new]
    BY <1>7 DEF StreamReplies, TypeOK
  <2>2. msg \in ClientMessage
    BY <1>7, QueueFacts DEF StreamReplies
  <2>3. Append(subs[id].out, Reply(msg.id, doc)) \in Seq(ServerMessage)
    BY <2>2, MessageFacts, QueueFacts DEF ClientMessage, TypeOK
  <2>4. new \in Subscription /\ new.cursor <= Len(log)
    <3>1. subs[id].inbox # <<>>
      BY <1>7 DEF StreamReplies
    <3>2. /\ subs[id] \in Subscription /\ Tail(subs[id].inbox) \in Seq(ClientMessage)
          /\ subs[id].cursor <= Len(log)
      BY <3>1, QueueFacts DEF TypeOK
    <3>3. new \in Subscription
      BY <2>3, <3>2 DEF Subscription
    <3>4. new.cursor = subs[id].cursor
      BY <3>2 DEF Subscription
    <3>5. QED
      BY <3>2, <3>3, <3>4
  <2>5. subs' \in [Ids -> Subscription] /\ \A j \in Ids : subs'[j].cursor <= Len(log)
    BY <2>1, <2>4, SubscriptionTyped
  <2>6. QED
    BY <1>7, <2>5 DEF StreamReplies, TypeOK, clientVars
<1>8. ASSUME NEW id \in Ids, StreamApplies(id) PROVE TypeOK'
  <2> DEFINE msg == Head(subs[id].inbox)
             new == [subs[id] EXCEPT !.inbox = Tail(@)]
             entry == [origin |-> subs[id].client, ops |-> msg.ops \ doc]
  <2>1. subs' = [subs EXCEPT ![id] = new]
    BY <1>8 DEF StreamApplies, TypeOK
  <2>2. msg \in ClientMessage /\ subs[id].inbox # <<>>
    BY <1>8, QueueFacts DEF StreamApplies
  <2>3. new \in Subscription /\ new.cursor <= Len(log)
    <3>1. subs[id].inbox # <<>>
      BY <1>8 DEF StreamApplies
    <3>2. /\ subs[id] \in Subscription /\ Tail(subs[id].inbox) \in Seq(ClientMessage)
          /\ subs[id].cursor <= Len(log)
      BY <3>1, QueueFacts DEF TypeOK
    <3>3. new \in Subscription
      BY <3>2 DEF Subscription
    <3>4. new.cursor = subs[id].cursor
      BY <3>2 DEF Subscription
    <3>5. QED
      BY <3>2, <3>3, <3>4
  <2>4. subs' \in [Ids -> Subscription] /\ \A j \in Ids : subs'[j].cursor <= Len(log)
    BY <2>1, <2>3, SubscriptionTyped
  <2>5. subs[id].client \in Clients
    BY <2>2, QueueFacts DEF Named, Subscription, NoSubscription
  <2>6. entry \in Broadcast
    BY <2>2, <2>5 DEF Broadcast, ClientMessage
  <2>7. doc' \in SUBSET Updates
    BY <1>8, <2>2 DEF StreamApplies, ClientMessage, TypeOK
  <2>8. log' = log \/ log' = Append(log, entry)
    BY <1>8 DEF StreamApplies
  <2> HIDE DEF entry, new
  <2>9. log' \in Seq(Broadcast) /\ Len(log) <= Len(log') /\ Len(log') \in Nat
    <3>1. log \in Seq(Broadcast) /\ Len(log) \in Nat
      BY DEF TypeOK
    <3>2. Append(log, entry) \in Seq(Broadcast) /\ Len(Append(log, entry)) = Len(log) + 1
      BY <2>6, <3>1, AppendProperties
    <3>3. QED
      BY <2>8, <3>1, <3>2
  <2>10. \A j \in Ids : subs'[j].cursor <= Len(log')
    <3>1. \A j \in Ids : subs'[j].cursor \in Nat
      BY <2>4 DEF Subscription
    <3>2. Len(log) \in Nat
      BY DEF TypeOK
    <3>3. QED
      BY <2>4, <2>9, <3>1, <3>2
  <2>11. QED
    BY <1>8, <2>4, <2>7, <2>9, <2>10 DEF StreamApplies, TypeOK, clientVars
<1>9. ASSUME NEW id \in Ids, Forward(id) PROVE TypeOK'
  <2> DEFINE next == subs[id].cursor + 1
             new == [subs[id] EXCEPT !.cursor = next,
                       !.out = IF log[next].origin = subs[id].client THEN @
                               ELSE Append(@, Forwarded(next))]
  <2>1. subs' = [subs EXCEPT ![id] = new]
    BY <1>9 DEF Forward, TypeOK
  <2>2. next \in 1 .. Len(log)
    BY <1>9, QueueFacts DEF Forward, Subscription
  <2>3. Append(subs[id].out, Forwarded(next)) \in Seq(ServerMessage)
    BY <2>2, MessageFacts, QueueFacts
  <2>4. new \in Subscription /\ new.cursor <= Len(log)
    <3>1. subs[id] \in Subscription /\ next \in Nat /\ next <= Len(log)
      BY <2>2, QueueFacts
    <3>2. new.cursor = next
      BY <3>1 DEF Subscription
    <3> HIDE DEF next
    <3>3. new \in Subscription
      BY <2>3, <3>1 DEF Subscription
    <3>4. QED
      BY <3>1, <3>2, <3>3
  <2>5. subs' \in [Ids -> Subscription] /\ \A j \in Ids : subs'[j].cursor <= Len(log)
    BY <2>1, <2>4, SubscriptionTyped
  <2>6. QED
    BY <1>9, <2>5 DEF Forward, TypeOK, clientVars
<1>10. ASSUME NEW id \in Ids, FallBehind(id) \/ StopSink(id) PROVE TypeOK'
  <2> DEFINE new == [subs[id] EXCEPT !.cursor = 0, !.sinkOn = FALSE]
  <2>1. subs' = [subs EXCEPT ![id] = new]
    BY <1>10 DEF FallBehind, StopSink, TypeOK
  <2>2. new \in Subscription /\ new.cursor <= Len(log)
    <3>1. subs[id] \in Subscription /\ subs[id].cursor <= Len(log) /\ Len(log) \in Nat
      BY DEF TypeOK
    <3>2. new \in Subscription
      BY <3>1 DEF Subscription
    <3>3. new.cursor = 0
      BY <3>1 DEF Subscription
    <3>4. QED
      BY <3>1, <3>2, <3>3
  <2>3. subs' \in [Ids -> Subscription] /\ \A j \in Ids : subs'[j].cursor <= Len(log)
    BY <2>1, <2>2, SubscriptionTyped
  <2>4. QED
    BY <1>10, <2>3 DEF FallBehind, StopSink, TypeOK, clientVars
<1>11. ASSUME NEW id \in Ids, StopStream(id) PROVE TypeOK'
  <2> DEFINE new == [subs[id] EXCEPT !.inbox = <<>>, !.streamOn = FALSE]
  <2>1. subs' = [subs EXCEPT ![id] = new]
    BY <1>11 DEF StopStream, TypeOK
  <2>2. new \in Subscription /\ new.cursor <= Len(log)
    <3>1. subs[id] \in Subscription /\ subs[id].cursor <= Len(log) /\ Len(log) \in Nat
      BY DEF TypeOK
    <3>2. new \in Subscription
      BY <3>1, EmptySeqs DEF Subscription
    <3>3. new.cursor = subs[id].cursor
      BY <3>1 DEF Subscription
    <3>4. QED
      BY <3>1, <3>2, <3>3
  <2>3. subs' \in [Ids -> Subscription] /\ \A j \in Ids : subs'[j].cursor <= Len(log)
    BY <2>1, <2>2, SubscriptionTyped
  <2>4. QED
    BY <1>11, <2>3 DEF StopStream, TypeOK, clientVars
<1>12. CASE UNCHANGED vars
  BY <1>12 DEF TypeOK, vars, serverVars, clientVars
<1>13. QED
  BY <1>1, <1>2, <1>3, <1>4, <1>5, <1>6, <1>7, <1>8, <1>9, <1>10, <1>11, <1>12
  DEF Next, Receive, Stream, Sink

-----------------------------------------------------------------------------
(* The steps of the tasks of a subscription.                               *)

(* A step of subscription id that makes at most a reply to an init sync it *)
(* had keeps all parts of the invariant but the last.                      *)
LEMMA QuietStep ==
  ASSUME BroadcastInv, TypeOK', NEW id \in Ids,
         UNCHANGED <<current, up, asking, inits, replica>>,
         subs[id] # NoSubscription,
         \A j \in Ids : j # id => subs'[j] = subs[j],
         subs'[id].client = subs[id].client,
         Members(subs'[id].inbox) \subseteq Members(subs[id].inbox),
         \A m \in Members(subs'[id].out) : m.type = "reply" =>
           \/ m \in Members(subs[id].out)
           \/ \E i \in Members(subs[id].inbox) : i.type = "init" /\ m.seq = i.id
  PROVE  (Named /\ Own /\ CurrentOwn /\ Numbered /\ Pending)'
<1>1. subs[id].client # None
  BY DEF BroadcastInv, Named
<1>2. Named'
  BY <1>1 DEF BroadcastInv, Named
<1>3. Own'
  <2>1. ASSUME NEW j \in Ids, NEW c \in Clients, subs'[j].client = c,
               NEW m \in Members(subs'[j].inbox)
        PROVE  m.ops \subseteq replica[c]
    BY <2>1 DEF BroadcastInv, Own
  <2>2. QED
    BY <2>1 DEF BroadcastInv, Own
<1>4. CurrentOwn'
  BY DEF BroadcastInv, CurrentOwn, TypeOK, Ids
<1>5. Numbered'
  <2>1. ASSUME NEW j \in Ids
        PROVE  /\ subs'[j].client # None => j <= inits
               /\ \A m \in Members(subs'[j].inbox) : m.type = "init" => m.id <= inits
               /\ \A m \in Members(subs'[j].out) : m.type = "reply" => m.seq <= inits
    BY <2>1 DEF BroadcastInv, Numbered
  <2>2. QED
    BY <2>1 DEF BroadcastInv, Numbered
<1>6. Pending'
  <2>1. ASSUME NEW n \in Ids, Unhandled(n) PROVE Unhandled(n)'
    <3>1. n # id
      BY <2>1 DEF Unhandled
    <3>2. subs'[n] = NoSubscription
      BY <2>1, <3>1 DEF Unhandled
    <3>3. ASSUME NEW j \in Ids
          PROVE  /\ \A m \in Members(subs'[j].inbox) : m.type = "init" => m.id # n
                 /\ \A m \in Members(subs'[j].out) : m.type = "reply" => m.seq # n
      BY <2>1, <3>3 DEF Unhandled
    <3>4. QED
      BY <3>2, <3>3 DEF Unhandled
  <2>2. \A c \in Clients : asking[c] # 0 => asking[c] \in Ids
    BY BroadcastAssumption DEF BroadcastInv, TypeOK, Ids
  <2>3. QED
    BY <2>1, <2>2 DEF BroadcastInv, Pending
<1>7. QED
  BY <1>2, <1>3, <1>4, <1>5, <1>6

(* An update keeps reaching a client as long as broadcasts only leave the  *)
(* queue for the document and the receiver of the client stays in place.   *)
LEMMA ReachesKept ==
  ASSUME NEW c, NEW u, Reaches(c, u),
         replica[c] \subseteq replica'[c],
         current'[c] = current[c],
         subs'[current[c]].cursor = subs[current[c]].cursor,
         \A n \in DOMAIN log : n \in DOMAIN log' /\ log'[n] = log[n],
         \A id \in Ids : subs[id].client = c =>
           /\ subs'[id].client = c
           /\ \A m \in Members(subs[id].out) : m.type = "broadcast" =>
                m \in Members(subs'[id].out) \/ m.ops \subseteq replica'[c]
  PROVE  Reaches(c, u)'
BY DEF Reaches

(* The task that handles messages takes the stop signal.                   *)
LEMMA StopStreamStep ==
  ASSUME BroadcastInv, TypeOK', NEW id \in Ids, StopStream(id)
  PROVE  BroadcastInv'
<1>1. /\ subs[id] \in Subscription
      /\ subs' = [subs EXCEPT ![id].inbox = <<>>, ![id].streamOn = FALSE]
      /\ UNCHANGED <<doc, log, current, up, asking, inits, replica>>
      /\ subs[id] # NoSubscription
  BY DEF StopStream, Stopped, BroadcastInv, TypeOK, clientVars, NoSubscription
<1>2. /\ \A j \in Ids : j # id => subs'[j] = subs[j]
      /\ subs'[id].inbox = <<>>
      /\ \A j \in Ids : /\ subs'[j].client = subs[j].client /\ subs'[j].out = subs[j].out
                        /\ subs'[j].cursor = subs[j].cursor /\ subs'[j].sinkOn = subs[j].sinkOn
  BY <1>1 DEF BroadcastInv, TypeOK, Subscription
<1>3. Members(<<>>) = {}
  BY DEF Members
<1>4. (Named /\ Own /\ CurrentOwn /\ Numbered /\ Pending)'
  BY <1>1, <1>2, <1>3, QuietStep
<1>5. Complete'
  <2>1. ASSUME NEW c \in Clients, Forwarding(c)'
        PROVE  Forwarding(c) /\ \A u : Reaches(c, u) => Reaches(c, u)'
    <3>1. current[c] \in Ids
      BY <1>1, <2>1 DEF Forwarding, BroadcastInv, TypeOK, Ids
    <3>2. Forwarding(c)
      BY <1>1, <1>2, <2>1, <3>1 DEF Forwarding
    <3>3. ASSUME NEW u, Reaches(c, u) PROVE Reaches(c, u)'
      BY <1>1, <1>2, <3>1, <3>3, ReachesKept
    <3>4. QED
      BY <3>2, <3>3
  <2>2. QED
    BY <1>1, <1>2, <2>1 DEF BroadcastInv, Complete
<1>6. QED
  BY <1>4, <1>5 DEF BroadcastInv

(* The forwarding task ends.                                               *)
LEMMA SinkEndsStep ==
  ASSUME BroadcastInv, TypeOK', NEW id \in Ids, FallBehind(id) \/ StopSink(id)
  PROVE  BroadcastInv'
<1>1. /\ subs[id] \in Subscription
      /\ subs' = [subs EXCEPT ![id].cursor = 0, ![id].sinkOn = FALSE]
      /\ UNCHANGED <<doc, log, current, up, asking, inits, replica>>
      /\ subs[id] # NoSubscription
  BY DEF FallBehind, StopSink, BroadcastInv, TypeOK, clientVars, NoSubscription
<1>2. /\ \A j \in Ids : j # id => subs'[j] = subs[j]
      /\ subs'[id].sinkOn = FALSE
      /\ \A j \in Ids : /\ subs'[j].client = subs[j].client /\ subs'[j].out = subs[j].out
                        /\ subs'[j].inbox = subs[j].inbox
  BY <1>1 DEF BroadcastInv, TypeOK, Subscription
<1>3. (Named /\ Own /\ CurrentOwn /\ Numbered /\ Pending)'
  BY <1>1, <1>2, QuietStep
<1>4. Complete'
  <2>1. ASSUME NEW c \in Clients, Forwarding(c)'
        PROVE  Forwarding(c) /\ \A u : Reaches(c, u) => Reaches(c, u)'
    <3>1. current[c] \in Ids /\ current[c] # id
      BY <1>1, <1>2, <2>1 DEF Forwarding, BroadcastInv, TypeOK, Ids
    <3>2. Forwarding(c)
      BY <1>1, <1>2, <2>1, <3>1 DEF Forwarding
    <3>3. ASSUME NEW u, Reaches(c, u) PROVE Reaches(c, u)'
      BY <1>1, <1>2, <3>1, <3>3, ReachesKept
    <3>4. QED
      BY <3>2, <3>3
  <2>2. QED
    BY <1>1, <1>2, <2>1 DEF BroadcastInv, Complete
<1>5. QED
  BY <1>3, <1>4 DEF BroadcastInv

(* The reply to an init sync: it has the whole document.                   *)
LEMMA StreamRepliesStep ==
  ASSUME BroadcastInv, TypeOK', NEW id \in Ids, StreamReplies(id)
  PROVE  BroadcastInv'
<1> DEFINE msg == Head(subs[id].inbox)
           reply == Reply(msg.id, doc)
<1>1. /\ subs[id] \in Subscription
      /\ subs[id].inbox # <<>> /\ msg.type = "init"
      /\ UNCHANGED <<doc, log, current, up, asking, inits, replica>>
      /\ subs[id] # NoSubscription
  BY DEF StreamReplies, BroadcastInv, TypeOK, clientVars, NoSubscription
<1>2. /\ Members(subs[id].inbox) = Members(Tail(subs[id].inbox)) \cup {msg}
      /\ msg \in ClientMessage
  BY <1>1, MembersTail DEF Subscription
<1>3. reply \in ServerMessage
  BY <1>2, MessageFacts DEF BroadcastInv, ClientMessage, TypeOK
<1>4. Members(Append(subs[id].out, reply)) = Members(subs[id].out) \cup {reply}
  BY <1>1, <1>3, MembersAppend DEF Subscription
<1>5. /\ \A j \in Ids : j # id => subs'[j] = subs[j]
      /\ subs'[id].inbox = Tail(subs[id].inbox)
      /\ subs'[id].out = IF subs[id].open THEN Append(subs[id].out, reply) ELSE subs[id].out
      /\ \A j \in Ids : /\ subs'[j].client = subs[j].client
                        /\ subs'[j].cursor = subs[j].cursor /\ subs'[j].sinkOn = subs[j].sinkOn
  BY <1>1 DEF StreamReplies, BroadcastInv, TypeOK, Subscription
<1>6. reply.type = "reply" /\ reply.seq = msg.id /\ reply.ops = doc
  BY DEF Reply
<1> HIDE DEF reply, msg
<1>7. /\ Members(subs[id].out) \subseteq Members(subs'[id].out)
      /\ Members(subs'[id].out) \subseteq Members(subs[id].out) \cup {reply}
  BY <1>4, <1>5
<1>8. (Named /\ Own /\ CurrentOwn /\ Numbered /\ Pending)'
  BY <1>1, <1>2, <1>5, <1>6, <1>7, QuietStep
<1>9. Complete'
  <2>1. ASSUME NEW c \in Clients, Forwarding(c)'
        PROVE  Forwarding(c) /\ \A u : Reaches(c, u) => Reaches(c, u)'
    <3>1. current[c] \in Ids
      BY <1>1, <2>1 DEF Forwarding, BroadcastInv, TypeOK, Ids
    <3>2. Forwarding(c)
      BY <1>1, <1>5, <2>1, <3>1 DEF Forwarding
    <3>3. ASSUME NEW u, Reaches(c, u) PROVE Reaches(c, u)'
      BY <1>1, <1>5, <1>7, <3>1, <3>3, ReachesKept
    <3>4. QED
      BY <3>2, <3>3
  <2>2. QED
    BY <1>1, <1>5, <1>6, <1>7, <2>1 DEF BroadcastInv, Complete
<1>10. QED
  BY <1>8, <1>9 DEF BroadcastInv

(* An update is applied and broadcast: its client has it, the receivers of *)
(* the others are to get it.                                               *)
LEMMA StreamAppliesStep ==
  ASSUME BroadcastInv, TypeOK', NEW id \in Ids, StreamApplies(id)
  PROVE  BroadcastInv'
<1> DEFINE msg == Head(subs[id].inbox)
           entry == [origin |-> subs[id].client, ops |-> msg.ops \ doc]
<1>1. /\ subs[id] \in Subscription
      /\ subs[id].inbox # <<>>
      /\ doc' = doc \cup msg.ops
      /\ log' = IF msg.ops \subseteq doc THEN log ELSE Append(log, entry)
      /\ UNCHANGED <<current, up, asking, inits, replica>>
      /\ subs[id] # NoSubscription
  BY DEF StreamApplies, BroadcastInv, TypeOK, clientVars, NoSubscription
<1>2. /\ Members(subs[id].inbox) = Members(Tail(subs[id].inbox)) \cup {msg}
      /\ msg \in ClientMessage
  BY <1>1, MembersTail DEF Subscription
<1>3. /\ \A j \in Ids : j # id => subs'[j] = subs[j]
      /\ subs'[id].inbox = Tail(subs[id].inbox)
      /\ \A j \in Ids : /\ subs'[j].client = subs[j].client /\ subs'[j].out = subs[j].out
                        /\ subs'[j].cursor = subs[j].cursor /\ subs'[j].sinkOn = subs[j].sinkOn
  BY <1>1 DEF StreamApplies, BroadcastInv, TypeOK, Subscription
<1>4. subs[id].client \in Clients /\ msg.ops \subseteq replica[subs[id].client]
  BY <1>1, <1>2 DEF BroadcastInv, Named, Own, Subscription
<1>5. entry \in Broadcast /\ entry.origin = subs[id].client /\ entry.ops = msg.ops \ doc
  BY <1>2, <1>4 DEF Broadcast, ClientMessage
<1>6. log \in Seq(Broadcast) /\ Len(log) \in Nat
  BY DEF BroadcastInv, TypeOK
<1> HIDE DEF msg, entry
<1>7. \A n \in DOMAIN log : n \in DOMAIN log' /\ log'[n] = log[n]
  BY <1>1, <1>5, <1>6
<1>8. ASSUME ~(msg.ops \subseteq doc)
      PROVE  Len(log) + 1 \in DOMAIN log' /\ log'[Len(log) + 1] = entry
  BY <1>1, <1>5, <1>6, <1>8
<1>9. (Named /\ Own /\ CurrentOwn /\ Numbered /\ Pending)'
  BY <1>1, <1>2, <1>3, QuietStep
<1>10. Complete'
  <2>1. ASSUME NEW c \in Clients, Forwarding(c)'
        PROVE  /\ Forwarding(c) /\ \A u : Reaches(c, u) => Reaches(c, u)'
               /\ \A u \in doc' : u \in doc \/ Reaches(c, u)'
    <3>1. current[c] \in Ids
      BY <1>1, <2>1 DEF Forwarding, BroadcastInv, TypeOK, Ids
    <3>2. Forwarding(c)
      BY <1>1, <1>3, <2>1, <3>1 DEF Forwarding
    <3>3. ASSUME NEW u, Reaches(c, u) PROVE Reaches(c, u)'
      BY <1>1, <1>3, <1>7, <3>1, <3>3, ReachesKept
    <3>4. ASSUME NEW u \in doc', u \notin doc PROVE Reaches(c, u)'
      <4>1. u \in msg.ops
        BY <1>1, <3>4
      <4>2. CASE c = subs[id].client
        BY <1>1, <1>4, <4>1, <4>2 DEF Reaches
      <4>3. CASE c # subs[id].client
        <5>1. /\ Len(log) + 1 \in DOMAIN log' /\ log'[Len(log) + 1] = entry
              /\ u \in entry.ops /\ entry.origin # c
          BY <1>5, <1>8, <3>4, <4>1, <4>3
        <5>2. Len(log) + 1 > subs'[current'[c]].cursor
          <6>1. subs[current[c]].cursor <= Len(log) /\ subs[current[c]].cursor \in Nat
            BY <3>1 DEF BroadcastInv, TypeOK, Subscription
          <6>2. QED
            BY <1>1, <1>3, <1>6, <3>1, <6>1
        <5>3. QED
          BY <5>1, <5>2 DEF Reaches
      <4>4. QED
        BY <4>2, <4>3
    <3>5. QED
      BY <3>2, <3>3, <3>4
  <2>2. QED
    BY <1>1, <1>3, <2>1 DEF BroadcastInv, Complete
<1>11. QED
  BY <1>9, <1>10 DEF BroadcastInv

(* A broadcast is forwarded.                                               *)
LEMMA ForwardStep ==
  ASSUME BroadcastInv, TypeOK', NEW id \in Ids, Forward(id)
  PROVE  BroadcastInv'
<1> DEFINE next == subs[id].cursor + 1
           own == log[next].origin = subs[id].client
<1>1. /\ subs[id] \in Subscription
      /\ subs[id].sinkOn
      /\ next <= Len(log)
      /\ UNCHANGED <<doc, log, current, up, asking, inits, replica>>
      /\ subs[id] # NoSubscription
  BY DEF Forward, BroadcastInv, TypeOK, clientVars, NoSubscription
<1>2. next \in 1 .. Len(log) /\ subs[id].cursor \in Nat
  BY <1>1 DEF Subscription, BroadcastInv, TypeOK
<1>3. Forwarded(next) \in ServerMessage
  BY <1>2, MessageFacts DEF BroadcastInv
<1>4. Members(Append(subs[id].out, Forwarded(next))) = Members(subs[id].out) \cup {Forwarded(next)}
  BY <1>1, <1>3, MembersAppend DEF Subscription
<1>5. /\ \A j \in Ids : j # id => subs'[j] = subs[j]
      /\ subs'[id].cursor = next
      /\ subs'[id].out = IF own THEN subs[id].out ELSE Append(subs[id].out, Forwarded(next))
      /\ \A j \in Ids : /\ subs'[j].client = subs[j].client /\ subs'[j].inbox = subs[j].inbox
                        /\ subs'[j].sinkOn = subs[j].sinkOn
  BY <1>1 DEF Forward, BroadcastInv, TypeOK, Subscription
<1>6. Forwarded(next).type = "broadcast" /\ Forwarded(next).ops = log[next].ops
  BY DEF Forwarded
<1>7. /\ Members(subs[id].out) \subseteq Members(subs'[id].out)
      /\ Members(subs'[id].out) \subseteq Members(subs[id].out) \cup {Forwarded(next)}
      /\ ~own => Forwarded(next) \in Members(subs'[id].out)
  BY <1>4, <1>5
<1> HIDE DEF own, next
<1>8. (Named /\ Own /\ CurrentOwn /\ Numbered /\ Pending)'
  BY <1>1, <1>5, <1>6, <1>7, QuietStep
<1>9. Complete'
  <2>1. ASSUME NEW c \in Clients, Forwarding(c)'
        PROVE  Forwarding(c) /\ \A u : Reaches(c, u) => Reaches(c, u)'
    <3>1. current[c] \in Ids /\ subs[current[c]].client = c
      BY <1>1, <2>1 DEF Forwarding, BroadcastInv, TypeOK, Ids, CurrentOwn
    <3>2. Forwarding(c)
      BY <1>1, <1>5, <2>1, <3>1 DEF Forwarding
    <3>3. CASE current[c] # id
      <4>1. ASSUME NEW u, Reaches(c, u) PROVE Reaches(c, u)'
        BY <1>1, <1>5, <1>7, <3>1, <3>3, <4>1, ReachesKept
      <4>2. QED
        BY <3>2, <4>1
    <3>4. CASE current[c] = id
      <4>1. ASSUME NEW u, Reaches(c, u) PROVE Reaches(c, u)'
        <5>1. CASE u \in replica[c]
          BY <1>1, <5>1 DEF Reaches
        <5>2. CASE \E j \in Ids : subs[j].client = c /\
                     \E m \in Members(subs[j].out) : m.type = "broadcast" /\ u \in m.ops
          BY <1>5, <1>7, <5>2 DEF Reaches
        <5>3. ASSUME NEW n \in DOMAIN log, n > subs[current[c]].cursor,
                     log[n].origin # c, u \in log[n].ops
              PROVE  Reaches(c, u)'
          <6>1. CASE n = next
            <7>1. ~own
              BY <3>1, <3>4, <5>3, <6>1 DEF own
            <7>2. QED
              BY <1>5, <1>6, <1>7, <3>1, <3>4, <5>3, <6>1, <7>1 DEF Reaches
          <6>2. CASE n # next
            <7>1. n > next
              BY <1>2, <3>4, <5>3, <6>2 DEF next, BroadcastInv, TypeOK
            <7>2. QED
              BY <1>1, <1>5, <3>4, <5>3, <7>1 DEF Reaches
          <6>3. QED
            BY <6>1, <6>2
        <5>4. QED
          BY <4>1, <5>1, <5>2, <5>3 DEF Reaches
      <4>2. QED
        BY <3>2, <4>1
    <3>5. QED
      BY <3>3, <3>4
  <2>2. QED
    BY <1>1, <1>5, <1>6, <1>7, <2>1 DEF BroadcastInv, Complete
<1>10. QED
  BY <1>8, <1>9 DEF BroadcastInv

-----------------------------------------------------------------------------
(* The steps of the clients.                                               *)

(* Which numbers are those of init syncs.                                  *)
LEMMA IdFacts ==
  ASSUME BroadcastInv
  PROVE  /\ \A c \in Clients : current[c] # 0 => current[c] \in Ids
         /\ \A c \in Clients : asking[c] # 0 => asking[c] \in Ids
         /\ 0 \notin Ids
<1>1. \A n \in 0 .. MaxInitSyncs : n # 0 => n \in 1 .. MaxInitSyncs
  BY BroadcastAssumption
<1>2. QED
  BY <1>1, BroadcastAssumption DEF BroadcastInv, TypeOK, Ids

(* The number of the next init sync is not in use.                         *)
LEMMA NextIsNew ==
  ASSUME BroadcastInv, inits < MaxInitSyncs
  PROVE  Unhandled(inits + 1) /\ inits + 1 \in Ids /\ inits \in Nat
<1>1. inits + 1 \in Ids /\ inits \in Nat
  BY InitsFacts DEF BroadcastInv, TypeOK
<1>2. subs[inits + 1] = NoSubscription
  <2>1. ~(inits + 1 <= inits)
    BY <1>1
  <2>2. subs[inits + 1].client = None
    BY <1>1, <2>1 DEF BroadcastInv, Numbered
  <2>3. QED
    BY <1>1, <2>2 DEF BroadcastInv, Named
<1>3. ASSUME NEW j \in Ids
      PROVE  /\ \A m \in Members(subs[j].inbox) : m.type = "init" => m.id # inits + 1
             /\ \A m \in Members(subs[j].out) : m.type = "reply" => m.seq # inits + 1
  BY <1>1 DEF BroadcastInv, Numbered
<1>4. QED
  BY <1>1, <1>2, <1>3 DEF Unhandled

(* The numbers in a subscription are not above that of the next init sync. *)
BelowNext(id) ==
  /\ subs[id].client # None => id <= inits + 1
  /\ \A m \in Members(subs[id].inbox) : m.type = "init" => m.id <= inits + 1
  /\ \A m \in Members(subs[id].out) : m.type = "reply" => m.seq <= inits + 1

(* So it is as long as every number so far is one of an earlier init sync. *)
LEMMA NumberedBelow ==
  ASSUME BroadcastInv, NEW id \in Ids
  PROVE  BelowNext(id)
<1>1. /\ Members(subs[id].inbox) \subseteq ClientMessage
      /\ Members(subs[id].out) \subseteq ServerMessage
      /\ inits \in Nat
  BY MembersTyped DEF BroadcastInv, TypeOK, Subscription
<1>2. /\ \A m \in Members(subs[id].inbox) : m.id \in Nat
      /\ \A m \in Members(subs[id].out) : m.seq \in Nat
  BY <1>1 DEF ClientMessage, ServerMessage
<1>3. QED
  BY <1>1, <1>2 DEF BroadcastInv, Numbered, Ids, BelowNext

(* What it means that a message of subscription id arrives.                *)
LEMMA ArrivedFacts ==
  ASSUME BroadcastInv, NEW id \in Ids, subs[id].out # <<>>,
         subs' = [subs EXCEPT ![id].out = Tail(@)], current' = current
  PROVE  /\ subs[id].client \in Clients
         /\ Head(subs[id].out) \in ServerMessage
         /\ Members(subs[id].out) = Members(subs'[id].out) \cup {Head(subs[id].out)}
         /\ \A j \in Ids : j # id => subs'[j] = subs[j]
         /\ \A j \in Ids : /\ subs'[j].client = subs[j].client /\ subs'[j].inbox = subs[j].inbox
                           /\ subs'[j].cursor = subs[j].cursor /\ subs'[j].sinkOn = subs[j].sinkOn
         /\ \A j \in Ids : Members(subs'[j].out) \subseteq Members(subs[j].out)
         /\ \A n \in Ids : Unhandled(n) => Unhandled(n)'
         /\ Named' /\ CurrentOwn'
<1>1. subs[id] \in Subscription /\ subs[id] # NoSubscription
  BY DEF BroadcastInv, TypeOK, NoSubscription
<1>2. subs[id].client \in Clients
  BY <1>1 DEF BroadcastInv, Named, Subscription
<1>3. /\ \A j \in Ids : j # id => subs'[j] = subs[j]
      /\ subs'[id].out = Tail(subs[id].out)
      /\ \A j \in Ids : /\ subs'[j].client = subs[j].client /\ subs'[j].inbox = subs[j].inbox
                        /\ subs'[j].cursor = subs[j].cursor /\ subs'[j].sinkOn = subs[j].sinkOn
  BY <1>1 DEF BroadcastInv, TypeOK, Subscription
<1>4. /\ Head(subs[id].out) \in ServerMessage
      /\ Members(subs[id].out) = Members(subs'[id].out) \cup {Head(subs[id].out)}
  BY <1>1, <1>3, MembersTail DEF Subscription
<1>5. \A j \in Ids : Members(subs'[j].out) \subseteq Members(subs[j].out)
  BY <1>3, <1>4
<1>6. ASSUME NEW n \in Ids, Unhandled(n) PROVE Unhandled(n)'
  <2>1. n # id
    BY <1>1, <1>6 DEF Unhandled
  <2>2. QED
    BY <1>3, <1>5, <1>6, <2>1 DEF Unhandled
<1>7. Named'
  BY <1>2, <1>3, BroadcastAssumption DEF BroadcastInv, Named
<1>8. CurrentOwn'
  BY <1>3 DEF BroadcastInv, CurrentOwn, TypeOK, Ids
<1>9. QED
  BY <1>2, <1>3, <1>4, <1>5, <1>6, <1>7, <1>8

(* A client edits its document.                                            *)
LEMMA EditStep ==
  ASSUME BroadcastInv, TypeOK', NEW c \in Clients, NEW u \in Updates, Edit(c, u)
  PROVE  BroadcastInv'
<1> DEFINE msg == UpdateSync({u})
<1>1. /\ UNCHANGED <<doc, log, subs, current, asking, inits>>
      /\ replica' = [replica EXCEPT ![c] = @ \cup {u}]
      /\ \A d \in Clients : replica[d] \subseteq replica'[d]
      /\ u \in replica'[c]
      /\ up[c] \in Seq(ClientMessage)
  BY DEF Edit, serverVars, BroadcastInv, TypeOK
<1>2. msg \in ClientMessage /\ msg.type = "update" /\ msg.ops = {u}
  <2>1. msg \in ClientMessage
    BY MessageFacts, BroadcastAssumption DEF BroadcastInv
  <2>2. QED
    BY <2>1 DEF UpdateSync
<1>3. \/ up' = up
      \/ up' = [up EXCEPT ![c] = Append(@, msg)]
  BY DEF Edit
<1> HIDE DEF msg
<1>4. /\ \A d \in Clients : d # c => up'[d] = up[d]
      /\ up'[c] = up[c] \/ up'[c] = Append(up[c], msg)
  BY <1>3 DEF BroadcastInv, TypeOK
<1>5. Members(up'[c]) \subseteq Members(up[c]) \cup {msg}
  <2>1. Members(Append(up[c], msg)) = Members(up[c]) \cup {msg}
    BY <1>1, <1>2, MembersAppend
  <2>2. QED
    BY <1>4, <2>1
<1>6. Named' /\ CurrentOwn'
  BY <1>1 DEF BroadcastInv, Named, CurrentOwn
<1>7. Own'
  <2>1. ASSUME NEW d \in Clients, NEW m \in Members(up'[d]) PROVE m.ops \subseteq replica'[d]
    BY <1>1, <1>2, <1>4, <1>5, <2>1 DEF BroadcastInv, Own
  <2>2. ASSUME NEW id \in Ids, NEW d \in Clients, subs[id].client = d,
               NEW m \in Members(subs[id].inbox)
        PROVE  m.ops \subseteq replica'[d]
    BY <1>1, <2>2 DEF BroadcastInv, Own
  <2>3. QED
    BY <1>1, <2>1, <2>2 DEF Own
<1>8. Numbered'
  BY <1>1 DEF BroadcastInv, Numbered
<1>9. Pending'
  <2>1. \A n : Unhandled(n) => Unhandled(n)'
    BY <1>1 DEF Unhandled
  <2>2. \A d \in Clients : OneInit(up'[d])
    <3>1. OneInit(Append(up[c], msg))
      BY <1>1, <1>2, OneInitAppend DEF BroadcastInv, Pending
    <3>2. QED
      BY <1>4, <3>1 DEF BroadcastInv, Pending
  <2>3. ASSUME NEW d \in Clients, NEW m \in Members(up'[d]), m.type = "init"
        PROVE  asking'[d] # 0 /\ m.id = asking'[d] /\ Unhandled(m.id)'
    <3>1. m \in Members(up[d])
      BY <1>2, <1>4, <1>5, <2>3
    <3>2. QED
      BY <1>1, <2>1, <2>3, <3>1 DEF BroadcastInv, Pending
  <2>4. QED
    BY <2>2, <2>3 DEF Pending
<1>10. Complete'
  <2>1. ASSUME NEW d \in Clients, NEW v, Reaches(d, v) PROVE Reaches(d, v)'
    BY <1>1, <2>1, ReachesKept
  <2>2. QED
    BY <1>1, <2>1 DEF BroadcastInv, Complete, Forwarding
<1>11. QED
  BY <1>6, <1>7, <1>8, <1>9, <1>10 DEF BroadcastInv

(* A client connects.                                                      *)
LEMMA ConnectStep ==
  ASSUME BroadcastInv, TypeOK', NEW c \in Clients, Connect(c)
  PROVE  BroadcastInv'
<1> DEFINE msg == InitSync(inits + 1, replica[c])
<1>1. /\ UNCHANGED <<doc, log, subs, current, replica>>
      /\ inits' = inits + 1
      /\ asking'[c] = inits + 1 /\ up'[c] = <<msg>>
      /\ \A d \in Clients : d # c => asking'[d] = asking[d] /\ up'[d] = up[d]
      /\ inits < MaxInitSyncs
  BY DEF Connect, serverVars, BroadcastInv, TypeOK
<1>2. Unhandled(inits + 1) /\ inits + 1 \in Ids /\ inits \in Nat
  BY <1>1, NextIsNew
<1>3. msg.type = "init" /\ msg.id = inits + 1 /\ msg.ops = replica[c]
  BY DEF InitSync
<1> HIDE DEF msg
<1>4. Members(up'[c]) = {msg} /\ OneInit(up'[c])
  BY <1>1 DEF Members, OneInit
<1>5. Named' /\ CurrentOwn'
  BY <1>1 DEF BroadcastInv, Named, CurrentOwn
<1>6. Own'
  BY <1>1, <1>3, <1>4 DEF BroadcastInv, Own
<1>7. \A d \in Clients : asking[d] \in Nat /\ asking[d] <= inits
  BY DEF BroadcastInv, Numbered, TypeOK
<1>8. Numbered'
  <2>1. \A d, e \in Clients : asking'[d] # 0 /\ asking'[d] = asking'[e] => d = e
    BY <1>1, <1>2, <1>7 DEF BroadcastInv, Numbered
  <2>2. \A id \in Ids : BelowNext(id)
    BY NumberedBelow
  <2>3. \A d \in Clients : asking'[d] <= inits + 1
    BY <1>1, <1>2, <1>7
  <2>4. QED
    BY <1>1, <2>1, <2>2, <2>3 DEF Numbered, BelowNext
<1>9. Pending'
  <2>1. \A n : Unhandled(n) => Unhandled(n)'
    BY <1>1 DEF Unhandled
  <2>2. QED
    BY <1>1, <1>2, <1>3, <1>4, <2>1 DEF BroadcastInv, Pending
<1>10. Complete'
  <2>1. ASSUME NEW d \in Clients, NEW v, Reaches(d, v) PROVE Reaches(d, v)'
    BY <1>1, <2>1, ReachesKept
  <2>2. \A id \in Ids : \A m \in Members(subs[id].out) : m.type = "reply" => m.seq # inits + 1
    BY <1>2 DEF Unhandled
  <2>3. QED
    BY <1>1, <1>2, <2>1, <2>2 DEF BroadcastInv, Complete, Forwarding
<1>11. QED
  BY <1>5, <1>6, <1>8, <1>9, <1>10 DEF BroadcastInv

(* The connection of a client is lost.                                     *)
LEMMA DisconnectStep ==
  ASSUME BroadcastInv, TypeOK', NEW c \in Clients, Disconnect(c)
  PROVE  BroadcastInv'
<1>1. /\ UNCHANGED <<doc, log, replica, asking, inits>>
      /\ up'[c] = <<>> /\ current'[c] = 0
      /\ \A d \in Clients : d # c => up'[d] = up[d] /\ current'[d] = current[d]
      /\ \A id \in Ids : subs'[id] =
           IF subs[id].client = c
             THEN [subs[id] EXCEPT !.open = FALSE, !.cursor = 0, !.sinkOn = FALSE, !.out = <<>>]
             ELSE subs[id]
  BY DEF Disconnect, BroadcastInv, TypeOK, clientVars
<1>2. ASSUME NEW id \in Ids, subs[id].client = c
      PROVE  subs'[id].client = c /\ subs'[id].inbox = subs[id].inbox /\ subs'[id].out = <<>>
  <2>1. subs[id] \in Subscription
    BY DEF BroadcastInv, TypeOK
  <2>2. QED
    BY <1>1, <1>2, <2>1 DEF Subscription
<1>3. \A id \in Ids : subs[id].client # c => subs'[id] = subs[id]
  BY <1>1
<1>4. Members(<<>>) = {} /\ OneInit(<<>>)
  BY DEF Members, OneInit
<1>5. \A id \in Ids : /\ subs'[id].client = subs[id].client
                      /\ subs'[id].inbox = subs[id].inbox
                      /\ Members(subs'[id].out) \subseteq Members(subs[id].out)
  BY <1>2, <1>3, <1>4
<1>6. Named'
  <2>1. c # None
    BY BroadcastAssumption
  <2>2. QED
    BY <1>3, <1>5, <2>1 DEF BroadcastInv, Named
<1>7. Own'
  <2>1. ASSUME NEW d \in Clients, NEW m \in Members(up'[d]) PROVE m.ops \subseteq replica[d]
    BY <1>1, <1>4, <2>1 DEF BroadcastInv, Own
  <2>2. QED
    BY <1>1, <1>5, <2>1 DEF BroadcastInv, Own
<1>8. CurrentOwn'
  <2>1. ASSUME NEW d \in Clients, current'[d] # 0 PROVE subs'[current'[d]].client = d
    <3>1. current'[d] = current[d] /\ current[d] \in Ids
      BY <1>1, <2>1, IdFacts
    <3>2. QED
      BY <1>5, <2>1, <3>1 DEF BroadcastInv, CurrentOwn
  <2>2. QED
    BY <2>1 DEF CurrentOwn
<1>9. Numbered'
  BY <1>1, <1>5 DEF BroadcastInv, Numbered
<1>10. Pending'
  <2>1. ASSUME NEW n \in Ids, Unhandled(n) PROVE Unhandled(n)'
    <3>1. subs[n].client # c
      BY <2>1, BroadcastAssumption DEF Unhandled, NoSubscription
    <3>2. QED
      BY <1>3, <1>5, <2>1, <3>1 DEF Unhandled
  <2>2. \A d \in Clients : asking[d] # 0 => asking[d] \in Ids
    BY IdFacts
  <2>3. QED
    BY <1>1, <1>4, <2>1, <2>2 DEF BroadcastInv, Pending
<1>11. Complete'
  <2>1. ASSUME NEW d \in Clients, Forwarding(d)'
        PROVE  d # c /\ Forwarding(d) /\ \A u : Reaches(d, u) => Reaches(d, u)'
    <3>1. d # c /\ current[d] \in Ids /\ current'[d] = current[d] /\ current[d] # 0
      BY <1>1, <2>1, IdFacts DEF Forwarding
    <3>2. subs'[current[d]] = subs[current[d]]
      BY <1>3, <3>1 DEF BroadcastInv, CurrentOwn
    <3>3. Forwarding(d)
      BY <2>1, <3>1, <3>2 DEF Forwarding
    <3>4. ASSUME NEW u, Reaches(d, u) PROVE Reaches(d, u)'
      BY <1>1, <1>3, <3>1, <3>2, <3>4, ReachesKept
    <3>5. QED
      BY <3>1, <3>3, <3>4
  <2>2. QED
    BY <1>1, <1>3, <1>5, <2>1 DEF BroadcastInv, Complete
<1>12. QED
  BY <1>6, <1>7, <1>8, <1>9, <1>10, <1>11 DEF BroadcastInv

(* A broadcast arrives, and may start an init sync.                        *)
LEMMA ReceiveBroadcastStep ==
  ASSUME BroadcastInv, TypeOK', NEW id \in Ids, ReceiveBroadcast(id)
  PROVE  BroadcastInv'
<1> DEFINE c == subs[id].client
           msg == Head(subs[id].out)
           init == InitSync(inits + 1, replica[c])
<1>1. /\ subs[id].out # <<>> /\ msg.type = "broadcast"
      /\ subs' = [subs EXCEPT ![id].out = Tail(@)]
      /\ UNCHANGED <<doc, log, current>>
      /\ replica' = [replica EXCEPT ![c] = @ \cup msg.ops]
      /\ TryInitSync(c) \/ UNCHANGED <<asking, inits, up>>
  BY DEF ReceiveBroadcast, Arrived
<1>2. /\ c \in Clients
      /\ Members(subs[id].out) = Members(subs'[id].out) \cup {msg}
      /\ \A j \in Ids : j # id => subs'[j] = subs[j]
      /\ \A j \in Ids : /\ subs'[j].client = subs[j].client /\ subs'[j].inbox = subs[j].inbox
                        /\ subs'[j].cursor = subs[j].cursor /\ subs'[j].sinkOn = subs[j].sinkOn
      /\ \A j \in Ids : Members(subs'[j].out) \subseteq Members(subs[j].out)
      /\ \A n \in Ids : Unhandled(n) => Unhandled(n)'
      /\ Named' /\ CurrentOwn'
  BY <1>1, ArrivedFacts
<1>3. init.type = "init" /\ init.id = inits + 1 /\ init.ops = replica[c]
  BY DEF InitSync
<1>4. /\ \A d \in Clients : replica[d] \subseteq replica'[d]
      /\ msg.ops \subseteq replica'[c]
  BY <1>1, <1>2 DEF BroadcastInv, TypeOK
<1>5. \/ UNCHANGED <<asking, inits, up>>
      \/ /\ asking[c] = 0
         /\ inits < MaxInitSyncs
         /\ inits' = inits + 1
         /\ asking' = [asking EXCEPT ![c] = inits + 1]
         /\ up' = [up EXCEPT ![c] = Append(@, init)]
  BY <1>1, InitsFacts DEF TryInitSync, BroadcastInv
<1> HIDE DEF c, msg, init
<1>6. \A d \in Clients : \A v : Forwarding(d)' /\ Reaches(d, v) => Reaches(d, v)'
  <2>1. ASSUME NEW d \in Clients, NEW v, Forwarding(d)', Reaches(d, v) PROVE Reaches(d, v)'
    <3>1. subs'[current[d]].cursor = subs[current[d]].cursor
      BY <1>1, <1>2, <2>1, IdFacts DEF Forwarding
    <3>2. QED
      BY <1>1, <1>2, <1>4, <2>1, <3>1, ReachesKept DEF c
  <2>2. QED
    BY <2>1
<1>7. \A d \in Clients : Forwarding(d)' => Forwarding(d)
  BY <1>1, <1>2, IdFacts DEF Forwarding
<1>8. \A d \in Clients : asking[d] # 0 => asking[d] \in Ids
  BY IdFacts
<1>9. CASE UNCHANGED <<asking, inits, up>>
  <2>1. Own'
    BY <1>2, <1>4, <1>9 DEF BroadcastInv, Own
  <2>2. Numbered'
    BY <1>2, <1>9 DEF BroadcastInv, Numbered
  <2>3. Pending'
    BY <1>2, <1>8, <1>9 DEF BroadcastInv, Pending
  <2>4. Complete'
    BY <1>1, <1>2, <1>6, <1>7, <1>9 DEF BroadcastInv, Complete
  <2>5. QED
    BY <1>2, <2>1, <2>2, <2>3, <2>4 DEF BroadcastInv
<1>10. CASE /\ asking[c] = 0
            /\ inits < MaxInitSyncs
            /\ inits' = inits + 1
            /\ asking' = [asking EXCEPT ![c] = inits + 1]
            /\ up' = [up EXCEPT ![c] = Append(@, init)]
  <2>1. /\ asking'[c] = inits + 1 /\ up'[c] = Append(up[c], init)
        /\ \A d \in Clients : d # c => asking'[d] = asking[d] /\ up'[d] = up[d]
        /\ up[c] \in Seq(ClientMessage)
    BY <1>2, <1>10 DEF BroadcastInv, TypeOK
  <2>2. Unhandled(inits + 1) /\ inits + 1 \in Ids /\ inits \in Nat
    BY <1>10, NextIsNew
  <2>3. init \in ClientMessage
    <3>1. inits + 1 \in 0 .. MaxInitSyncs /\ replica[c] \in SUBSET Updates
      BY <1>2, <1>10, InitsFacts DEF BroadcastInv, TypeOK
    <3>2. QED
      BY <3>1, MessageFacts DEF init, BroadcastInv
  <2>4. \A m \in Members(up[c]) : m.type # "init"
    BY <1>2, <1>10 DEF BroadcastInv, Pending
  <2>5. Members(up'[c]) = Members(up[c]) \cup {init}
    BY <2>1, <2>3, MembersAppend
  <2>6. OneInit(up'[c])
    BY <1>2, <2>1, <2>3, <2>4, OneInitAppend DEF BroadcastInv, Pending
  <2>7. Own'
    <3>1. ASSUME NEW d \in Clients, NEW m \in Members(up'[d]) PROVE m.ops \subseteq replica'[d]
      <4>1. CASE d # c \/ m \in Members(up[d])
        BY <1>4, <2>1, <3>1, <4>1 DEF BroadcastInv, Own
      <4>2. CASE d = c /\ m = init
        BY <1>3, <1>4, <3>1, <4>2
      <4>3. QED
        BY <2>5, <3>1, <4>1, <4>2
    <3>2. QED
      BY <1>2, <1>4, <3>1 DEF BroadcastInv, Own
  <2>8. Numbered'
    <3>1. \A d \in Clients : asking[d] \in Nat /\ asking[d] <= inits
      BY DEF BroadcastInv, Numbered, TypeOK
    <3>2. \A d, e \in Clients : asking'[d] # 0 /\ asking'[d] = asking'[e] => d = e
      BY <2>1, <2>2, <3>1 DEF BroadcastInv, Numbered
    <3>3. \A j \in Ids : BelowNext(j)
      BY NumberedBelow
    <3>4. \A d \in Clients : asking'[d] <= inits + 1
      BY <2>1, <2>2, <3>1
    <3>5. QED
      BY <1>2, <1>10, <3>2, <3>3, <3>4 DEF Numbered, BelowNext
  <2>9. Pending'
    <3>1. ASSUME NEW d \in Clients, NEW m \in Members(up'[d]), m.type = "init"
          PROVE  asking'[d] # 0 /\ m.id = asking'[d] /\ Unhandled(m.id)'
      <4>1. CASE d = c
        <5>1. m = init
          BY <2>4, <2>5, <3>1, <4>1
        <5>2. PICK n \in Ids : n = inits + 1
          BY <2>2
        <5>3. n # 0 /\ Unhandled(n)'
          BY <1>2, <2>2, <5>2, IdFacts
        <5>4. QED
          BY <1>3, <2>1, <4>1, <5>1, <5>2, <5>3
      <4>2. CASE d # c
        BY <1>2, <1>8, <2>1, <3>1, <4>2 DEF BroadcastInv, Pending
      <4>3. QED
        BY <4>1, <4>2
    <3>2. QED
      BY <2>1, <2>6, <3>1 DEF BroadcastInv, Pending
  <2>10. Complete'
    <3>1. \A j \in Ids : \A m \in Members(subs'[j].out) : m.type = "reply" => m.seq # inits + 1
      BY <1>2, <2>2 DEF Unhandled
    <3>2. QED
      BY <1>1, <1>2, <1>6, <1>7, <2>1, <2>2, <3>1 DEF BroadcastInv, Complete
  <2>11. QED
    BY <1>2, <2>7, <2>8, <2>9, <2>10 DEF BroadcastInv
<1>11. QED
  BY <1>5, <1>9, <1>10

(* A reply arrives.  If it is refused it brought nothing that was counted  *)
(* on; if not, it and the broadcasts bring everything.                     *)
LEMMA ReceiveReplyStep ==
  ASSUME BroadcastInv, TypeOK', NEW id \in Ids, ReceiveReply(id)
  PROVE  BroadcastInv'
<1> DEFINE c == subs[id].client
           msg == Head(subs[id].out)
           answer == replica[c] \ msg.ops
           update == UpdateSync(answer)
<1>1. /\ subs[id].out # <<>> /\ msg.type = "reply"
      /\ subs' = [subs EXCEPT ![id].out = Tail(@)]
      /\ UNCHANGED <<doc, log, current, inits>>
      /\ \/ UNCHANGED <<replica, asking, up>>
         \/ /\ asking[c] = msg.seq
            /\ asking' = [asking EXCEPT ![c] = 0]
            /\ replica' = [replica EXCEPT ![c] = @ \cup msg.ops]
            /\ up' = up \/ up' = [up EXCEPT ![c] = Append(@, update)]
  BY DEF ReceiveReply, Arrived
<1>2. /\ c \in Clients
      /\ Members(subs[id].out) = Members(subs'[id].out) \cup {msg}
      /\ \A j \in Ids : j # id => subs'[j] = subs[j]
      /\ \A j \in Ids : /\ subs'[j].client = subs[j].client /\ subs'[j].inbox = subs[j].inbox
                        /\ subs'[j].cursor = subs[j].cursor /\ subs'[j].sinkOn = subs[j].sinkOn
      /\ \A j \in Ids : Members(subs'[j].out) \subseteq Members(subs[j].out)
      /\ \A n \in Ids : Unhandled(n) => Unhandled(n)'
      /\ Named' /\ CurrentOwn'
  BY <1>1, ArrivedFacts
<1>3. \A d \in Clients : replica[d] \subseteq replica'[d]
  <2>1. \/ replica' = replica
        \/ replica' = [replica EXCEPT ![c] = @ \cup msg.ops]
    BY <1>1
  <2> HIDE DEF c, msg
  <2>2. QED
    BY <2>1 DEF BroadcastInv, TypeOK
<1>4. update \in ClientMessage /\ update.type = "update" /\ update.ops \subseteq replica[c]
  <2>1. answer \in SUBSET Updates
    BY <1>2 DEF BroadcastInv, TypeOK
  <2>2. update \in ClientMessage
    BY <2>1, MessageFacts, BroadcastAssumption DEF BroadcastInv
  <2>3. QED
    BY <2>2 DEF UpdateSync
<1> HIDE DEF c, msg, update
<1>5. \A d \in Clients : \A v : Forwarding(d)' /\ Reaches(d, v) => Reaches(d, v)'
  <2>1. ASSUME NEW d \in Clients, NEW v, Forwarding(d)', Reaches(d, v) PROVE Reaches(d, v)'
    <3>1. subs'[current[d]].cursor = subs[current[d]].cursor
      BY <1>1, <1>2, <2>1, IdFacts DEF Forwarding
    <3>2. \A j \in Ids : \A m \in Members(subs[j].out) : m.type = "broadcast" =>
            m \in Members(subs'[j].out)
      BY <1>1, <1>2
    <3>3. QED
      BY <1>1, <1>2, <1>3, <2>1, <3>1, <3>2, ReachesKept
  <2>2. QED
    BY <2>1
<1>6. \A d \in Clients : Forwarding(d)' => Forwarding(d)
  BY <1>1, <1>2, IdFacts DEF Forwarding
<1>7. CASE UNCHANGED <<replica, asking, up>>
  <2>1. Own'
    BY <1>2, <1>7 DEF BroadcastInv, Own
  <2>2. Numbered'
    BY <1>1, <1>2, <1>7 DEF BroadcastInv, Numbered
  <2>3. Pending'
    BY <1>2, <1>7, IdFacts DEF BroadcastInv, Pending
  <2>4. Complete'
    BY <1>1, <1>2, <1>5, <1>6, <1>7 DEF BroadcastInv, Complete
  <2>5. QED
    BY <1>2, <2>1, <2>2, <2>3, <2>4 DEF BroadcastInv
<1>8. CASE /\ asking[c] = msg.seq
           /\ asking' = [asking EXCEPT ![c] = 0]
           /\ replica' = [replica EXCEPT ![c] = @ \cup msg.ops]
           /\ up' = up \/ up' = [up EXCEPT ![c] = Append(@, update)]
  <2>1. /\ asking'[c] = 0
        /\ \A d \in Clients : d # c => asking'[d] = asking[d] /\ up'[d] = up[d]
        /\ up'[c] = up[c] \/ up'[c] = Append(up[c], update)
        /\ up[c] \in Seq(ClientMessage)
        /\ msg.ops \subseteq replica'[c]
    BY <1>2, <1>8 DEF BroadcastInv, TypeOK
  <2>2. Members(up'[c]) \subseteq Members(up[c]) \cup {update}
    <3>1. Members(Append(up[c], update)) = Members(up[c]) \cup {update}
      BY <1>4, <2>1, MembersAppend
    <3>2. QED
      BY <2>1, <3>1
  <2>3. \A m \in Members(up[c]) : m.type # "init"
    <3>1. ASSUME NEW m \in Members(up[c]), m.type = "init" PROVE FALSE
      <4>1. m.id = msg.seq /\ Unhandled(m.id)
        BY <1>2, <1>8, <3>1 DEF BroadcastInv, Pending
      <4>2. QED
        BY <1>1, <1>2, <4>1 DEF Unhandled
    <3>2. QED
      BY <3>1
  <2>4. OneInit(up'[c])
    <3>1. OneInit(up[c])
      BY <1>2 DEF BroadcastInv, Pending
    <3>2. OneInit(Append(up[c], update))
      BY <1>4, <2>1, <3>1, OneInitAppend
    <3>3. QED
      BY <2>1, <3>1, <3>2
  <2>5. Own'
    <3>1. ASSUME NEW d \in Clients, NEW m \in Members(up'[d]) PROVE m.ops \subseteq replica'[d]
      <4>1. CASE d # c \/ m \in Members(up[d])
        BY <1>3, <2>1, <3>1, <4>1 DEF BroadcastInv, Own
      <4>2. CASE d = c /\ m = update
        BY <1>2, <1>3, <1>4, <4>2
      <4>3. QED
        BY <2>2, <3>1, <4>1, <4>2
    <3>2. QED
      BY <1>2, <1>3, <3>1 DEF BroadcastInv, Own
  <2>6. Numbered'
    <3>1. \A d \in Clients : asking'[d] \in {0, asking[d]}
      BY <2>1
    <3>2. \A d \in Clients : asking'[d] <= inits
      <4>1. 0 <= inits
        BY DEF BroadcastInv, TypeOK
      <4>2. QED
        BY <3>1, <4>1 DEF BroadcastInv, Numbered
    <3>3. \A d, e \in Clients : asking'[d] # 0 /\ asking'[d] = asking'[e] => d = e
      BY <3>1 DEF BroadcastInv, Numbered
    <3>4. QED
      BY <1>1, <1>2, <3>2, <3>3 DEF BroadcastInv, Numbered
  <2>7. Pending'
    <3>1. ASSUME NEW d \in Clients, NEW m \in Members(up'[d]), m.type = "init"
          PROVE  asking'[d] # 0 /\ m.id = asking'[d] /\ Unhandled(m.id)'
      <4>1. d # c
        BY <1>4, <2>2, <2>3, <3>1
      <4>2. QED
        BY <1>2, <2>1, <3>1, <4>1, IdFacts DEF BroadcastInv, Pending
    <3>2. QED
      BY <2>1, <2>4, <3>1 DEF BroadcastInv, Pending
  <2>8. Complete'
    <3>1. ASSUME NEW d \in Clients, d = c, Forwarding(d)', NEW u \in doc
          PROVE  Reaches(d, u)'
      <4>1. u \in msg.ops \/ Reaches(d, u)
        BY <1>1, <1>2, <1>6, <1>8, <3>1 DEF BroadcastInv, Complete, c
      <4>2. CASE u \in msg.ops
        BY <2>1, <3>1, <4>2 DEF Reaches
      <4>3. CASE Reaches(d, u)
        BY <1>5, <3>1, <4>3
      <4>4. QED
        BY <4>1, <4>2, <4>3
    <3>2. QED
      BY <1>1, <1>2, <1>5, <1>6, <2>1, <3>1 DEF BroadcastInv, Complete
  <2>9. QED
    BY <1>2, <2>5, <2>6, <2>7, <2>8 DEF BroadcastInv
<1>9. QED
  BY <1>1, <1>7, <1>8

-----------------------------------------------------------------------------
(* The runner of the group.                                                *)

(* The runner passes an update on, or renews the subscription first.       *)
LEMMA HandleMessageStep ==
  ASSUME BroadcastInv, TypeOK', NEW c \in Clients, HandleMessage(c)
  PROVE  BroadcastInv'
<1> DEFINE msg == Head(up[c])
           init == msg.type = "init"
           renewed == IF init THEN [subs EXCEPT ![msg.id] = NewSubscription(c)] ELSE subs
<1>1. /\ up[c] # <<>>
      /\ UNCHANGED <<doc, log, replica, asking, inits>>
      /\ up'[c] = Tail(up[c])
      /\ \A d \in Clients : d # c => up'[d] = up[d] /\ current'[d] = current[d]
      /\ current'[c] = IF init THEN msg.id ELSE current[c]
      /\ up[c] \in Seq(ClientMessage)
  BY DEF HandleMessage, BroadcastInv, TypeOK, clientVars
<1>2. \A id \in Ids : subs'[id] =
        IF renewed[id].client = c /\ renewed[id].open /\ renewed[id].streamOn
          THEN [renewed[id] EXCEPT !.inbox = Append(@, msg)]
          ELSE renewed[id]
  BY DEF HandleMessage
<1>3. /\ msg \in ClientMessage
      /\ Members(up[c]) = Members(up'[c]) \cup {msg}
      /\ OneInit(up'[c])
      /\ init => \A m \in Members(up'[c]) : m.type # "init"
  BY <1>1, MembersTail, OneInitTail DEF BroadcastInv, Pending
<1>4. init => asking[c] # 0 /\ msg.id = asking[c] /\ Unhandled(msg.id) /\ msg.id \in Ids
  BY <1>3, IdFacts DEF BroadcastInv, Pending
<1>5. msg.ops \subseteq replica[c]
  BY <1>3 DEF BroadcastInv, Own
<1>6. /\ NewSubscription(c) \in Subscription
      /\ NewSubscription(c).client = c
      /\ NewSubscription(c).inbox = <<>> /\ NewSubscription(c).out = <<>>
  <2>1. NoSubscription \in Subscription /\ NoSubscription.inbox = <<>> /\ NoSubscription.out = <<>>
    BY EmptySeqs DEF NoSubscription, Subscription
  <2>2. Len(log) \in Nat
    BY DEF BroadcastInv, TypeOK
  <2>3. QED
    BY <2>1, <2>2 DEF NewSubscription, Subscription
<1>7. \A id \in Ids : /\ renewed[id] \in Subscription
                      /\ renewed[id] = IF init /\ id = msg.id THEN NewSubscription(c) ELSE subs[id]
  BY <1>4, <1>6 DEF BroadcastInv, TypeOK
<1> HIDE DEF msg, init, renewed
<1>8. ASSUME NEW id \in Ids
      PROVE  /\ subs'[id].client = renewed[id].client /\ subs'[id].out = renewed[id].out
             /\ subs'[id].cursor = renewed[id].cursor /\ subs'[id].sinkOn = renewed[id].sinkOn
             /\ \/ subs'[id] = renewed[id]
                \/ renewed[id].client = c /\ subs'[id].inbox = Append(renewed[id].inbox, msg)
  BY <1>2, <1>7, <1>8 DEF Subscription
<1>9. ASSUME NEW id \in Ids
      PROVE  \/ subs'[id] = renewed[id]
             \/ /\ renewed[id].client = c
                /\ Members(subs'[id].inbox) = Members(renewed[id].inbox) \cup {msg}
  <2>1. renewed[id].inbox \in Seq(ClientMessage)
    BY <1>7, <1>9 DEF Subscription
  <2>2. Members(Append(renewed[id].inbox, msg)) = Members(renewed[id].inbox) \cup {msg}
    BY <1>3, <2>1, MembersAppend
  <2>3. QED
    BY <1>8, <2>2
<1>10. c # None /\ Members(<<>>) = {}
  BY BroadcastAssumption DEF Members
(* Nothing is lost with the subscription of a new init sync, for it is none. *)
<1>11. init => /\ subs[msg.id].client = None
               /\ subs[msg.id].inbox = <<>> /\ subs[msg.id].out = <<>>
  BY <1>4 DEF Unhandled, NoSubscription
<1>12. \A id \in Ids : Members(subs'[id].out) = Members(subs[id].out)
  BY <1>6, <1>7, <1>8, <1>11
<1>13. ASSUME NEW id \in Ids
       PROVE  /\ Members(subs'[id].inbox) \subseteq Members(subs[id].inbox) \cup {msg}
              /\ subs'[id].client # c => subs'[id] = subs[id]
  BY <1>6, <1>7, <1>8, <1>9, <1>10, <1>11, <1>13
<1>14. \A id \in Ids :
         \/ subs'[id].client = subs[id].client
         \/ init /\ id = msg.id /\ subs'[id].client = c
  <2>1. ASSUME NEW id \in Ids
        PROVE  \/ subs'[id].client = subs[id].client
               \/ init /\ id = msg.id /\ subs'[id].client = c
    <3>1. CASE init /\ id = msg.id
      BY <1>6, <1>7, <1>8, <3>1
    <3>2. CASE ~(init /\ id = msg.id)
      BY <1>7, <1>8, <3>2
    <3>3. QED
      BY <3>1, <3>2
  <2>2. QED
    BY <2>1
<1>15. Named'
  <2>1. ASSUME NEW id \in Ids, subs'[id].client = None PROVE subs'[id] = NoSubscription
    <3>1. subs'[id] = subs[id]
      BY <1>10, <1>13, <2>1
    <3>2. QED
      BY <2>1, <3>1 DEF BroadcastInv, Named
  <2>2. QED
    BY <2>1 DEF Named
<1>16. Own'
  <2>1. ASSUME NEW d \in Clients, NEW m \in Members(up'[d]) PROVE m.ops \subseteq replica[d]
    BY <1>1, <1>3, <2>1 DEF BroadcastInv, Own
  <2>2. ASSUME NEW id \in Ids, NEW d \in Clients, subs'[id].client = d,
               NEW m \in Members(subs'[id].inbox)
        PROVE  m.ops \subseteq replica[d]
    <3>1. CASE d # c
      BY <1>13, <2>2, <3>1 DEF BroadcastInv, Own
    <3>2. CASE d = c /\ m = msg
      BY <1>5, <3>2
    <3>3. CASE d = c /\ m # msg
      <4>1. m \in Members(subs[id].inbox)
        BY <1>13, <2>2, <3>3
      <4>2. subs[id].client = d
        BY <1>10, <1>11, <1>14, <2>2, <3>3, <4>1
      <4>3. QED
        BY <4>1, <4>2 DEF BroadcastInv, Own
    <3>4. QED
      BY <3>1, <3>2, <3>3
  <2>3. QED
    BY <1>1, <2>1, <2>2 DEF Own
<1>17. CurrentOwn'
  <2>1. ASSUME NEW d \in Clients, current'[d] # 0 PROVE subs'[current'[d]].client = d
    <3>1. CASE d = c /\ init
      BY <1>1, <1>4, <1>6, <1>7, <1>8, <3>1
    <3>2. CASE d # c \/ ~init
      <4>1. current'[d] = current[d] /\ current[d] \in Ids
        BY <1>1, <2>1, <3>2, IdFacts
      <4>2. subs[current[d]].client = d
        BY <2>1, <4>1 DEF BroadcastInv, CurrentOwn
      <4>3. subs'[current[d]].client = d
        BY <1>10, <1>11, <1>14, <4>1, <4>2, BroadcastAssumption
      <4>4. QED
        BY <4>1, <4>3
    <3>3. QED
      BY <3>1, <3>2
  <2>2. QED
    BY <2>1 DEF CurrentOwn
<1>18. Numbered'
  <2>1. init => msg.id <= inits
    BY <1>4 DEF BroadcastInv, Numbered
  <2>2. ASSUME NEW id \in Ids
        PROVE  /\ subs'[id].client # None => id <= inits
               /\ \A m \in Members(subs'[id].inbox) : m.type = "init" => m.id <= inits
               /\ \A m \in Members(subs'[id].out) : m.type = "reply" => m.seq <= inits
    <3>1. subs'[id].client # None => id <= inits
      BY <1>14, <2>1, <2>2 DEF BroadcastInv, Numbered
    <3>2. \A m \in Members(subs'[id].inbox) : m.type = "init" => m.id <= inits
      BY <1>13, <2>1, <2>2 DEF BroadcastInv, Numbered, init
    <3>3. \A m \in Members(subs'[id].out) : m.type = "reply" => m.seq <= inits
      BY <1>12, <2>2 DEF BroadcastInv, Numbered
    <3>4. QED
      BY <3>1, <3>2, <3>3
  <2>3. QED
    BY <1>1, <2>2 DEF BroadcastInv, Numbered
<1>19. Pending'
  <2>1. ASSUME NEW d \in Clients, NEW m \in Members(up'[d]), m.type = "init"
        PROVE  asking[d] # 0 /\ m.id = asking[d] /\ Unhandled(m.id)'
    <3>1. m \in Members(up[d])
      BY <1>1, <1>3, <2>1
    <3>2. asking[d] # 0 /\ m.id = asking[d] /\ Unhandled(m.id) /\ m.id \in Ids
      BY <2>1, <3>1, IdFacts DEF BroadcastInv, Pending
    <3>3. ASSUME init PROVE m.id # msg.id
      <4>1. d # c
        BY <1>3, <2>1, <3>3
      <4>2. QED
        BY <1>4, <3>2, <3>3, <4>1 DEF BroadcastInv, Numbered
    <3>4. subs'[m.id] = NoSubscription
      <4>1. subs[m.id] = NoSubscription /\ subs[m.id].client = None
        BY <3>2 DEF Unhandled, NoSubscription
      <4>2. subs'[m.id].client = None
        BY <1>14, <3>2, <3>3, <4>1
      <4>3. QED
        BY <1>10, <1>13, <3>2, <4>1, <4>2
    <3>5. ASSUME NEW j \in Ids
          PROVE  /\ \A i \in Members(subs'[j].inbox) : i.type = "init" => i.id # m.id
                 /\ \A i \in Members(subs'[j].out) : i.type = "reply" => i.seq # m.id
      BY <1>12, <1>13, <3>2, <3>3, <3>5 DEF Unhandled, init
    <3>6. QED
      BY <3>2, <3>4, <3>5 DEF Unhandled
  <2>2. QED
    BY <1>1, <1>3, <2>1 DEF BroadcastInv, Pending
<1>20. Complete'
  <2>1. ASSUME NEW d \in Clients, Forwarding(d)', d # c \/ ~init
        PROVE  Forwarding(d) /\ \A u : Reaches(d, u) => Reaches(d, u)'
    <3>1. current'[d] = current[d] /\ current[d] \in Ids /\ current[d] # 0
      BY <1>1, <2>1, IdFacts DEF Forwarding
    <3>2. renewed[current[d]] = subs[current[d]]
      <4>1. subs[current[d]].client = d
        BY <3>1 DEF BroadcastInv, CurrentOwn
      <4>2. d # None
        BY BroadcastAssumption
      <4>3. QED
        BY <1>7, <1>11, <3>1, <4>1, <4>2
    <3>3. /\ subs'[current[d]].cursor = subs[current[d]].cursor
          /\ subs'[current[d]].sinkOn = subs[current[d]].sinkOn
      BY <1>8, <3>1, <3>2
    <3>4. Forwarding(d)
      BY <2>1, <3>1, <3>3 DEF Forwarding
    <3>5. \A id \in Ids : subs[id].client = d => subs'[id].client = d
      BY <1>11, <1>14, BroadcastAssumption
    <3>6. ASSUME NEW u, Reaches(d, u) PROVE Reaches(d, u)'
      BY <1>1, <1>12, <3>1, <3>3, <3>5, <3>6, ReachesKept
    <3>7. QED
      BY <3>4, <3>6
  <2>2. ASSUME NEW d \in Clients, Forwarding(d)', d # c \/ ~init
        PROVE  /\ asking[d] = 0 => \A u \in doc : Reaches(d, u)'
               /\ asking[d] # 0 => \A id \in Ids : subs'[id].client = d =>
                    \A m \in Members(subs'[id].out) : m.type = "reply" /\ m.seq = asking[d] =>
                      \A u \in doc : u \in m.ops \/ Reaches(d, u)'
    <3>1. Forwarding(d) /\ \A u : Reaches(d, u) => Reaches(d, u)'
      BY <2>1, <2>2
    <3>2. ASSUME NEW id \in Ids, subs'[id].client = d, NEW m \in Members(subs'[id].out)
          PROVE  subs[id].client = d /\ m \in Members(subs[id].out)
      <4>1. m \in Members(subs[id].out)
        BY <1>12, <3>2
      <4>2. QED
        BY <1>10, <1>11, <1>14, <3>2, <4>1
    <3>3. QED
      BY <3>1, <3>2 DEF BroadcastInv, Complete
  <2>3. ASSUME init
        PROVE  /\ asking[c] # 0
               /\ \A id \in Ids : \A m \in Members(subs'[id].out) :
                    m.type = "reply" => m.seq # asking[c]
    BY <1>4, <1>12, <2>3 DEF Unhandled
  <2>4. QED
    BY <1>1, <2>2, <2>3 DEF Complete
<1>21. QED
  BY <1>15, <1>16, <1>17, <1>18, <1>19, <1>20 DEF BroadcastInv

-----------------------------------------------------------------------------
(* Every step keeps the invariant.                                         *)
LEMMA NextHolds == BroadcastInv /\ [Next]_vars => BroadcastInv'
<1> SUFFICES ASSUME BroadcastInv, [Next]_vars PROVE BroadcastInv'
  OBVIOUS
<1>1. TypeOK'
  BY TypeStep DEF BroadcastInv
<1>2. ASSUME NEW c \in Clients, NEW u \in Updates, Edit(c, u) PROVE BroadcastInv'
  BY <1>1, <1>2, EditStep
<1>3. ASSUME NEW c \in Clients, Connect(c) \/ Disconnect(c) \/ HandleMessage(c)
      PROVE  BroadcastInv'
  BY <1>1, <1>3, ConnectStep, DisconnectStep, HandleMessageStep
<1>4. ASSUME NEW id \in Ids, Receive(id) PROVE BroadcastInv'
  BY <1>1, <1>4, ReceiveBroadcastStep, ReceiveReplyStep DEF Receive
<1>5. ASSUME NEW id \in Ids, Stream(id) \/ StopStream(id) PROVE BroadcastInv'
  BY <1>1, <1>5, StreamRepliesStep, StreamAppliesStep, StopStreamStep DEF Stream
<1>6. ASSUME NEW id \in Ids, Sink(id) \/ StopSink(id) PROVE BroadcastInv'
  BY <1>1, <1>6, ForwardStep, SinkEndsStep DEF Sink
<1>7. CASE UNCHANGED vars
  <2>1. UNCHANGED <<doc, log, subs, current, conn, up, replica, seen, asking, inits>>
    BY <1>7 DEF vars, serverVars, clientVars
  <2>2. \A n : Unhandled(n)' = Unhandled(n)
    BY <2>1 DEF Unhandled
  <2>3. Pending'
    BY <2>1, <2>2 DEF BroadcastInv, Pending
  <2>4. Complete'
    BY <2>1 DEF BroadcastInv, Complete, Forwarding, Reaches
  <2>5. QED
    BY <1>1, <2>1, <2>3, <2>4 DEF BroadcastInv, Named, Own, CurrentOwn, Numbered
<1>8. QED
  BY <1>2, <1>3, <1>4, <1>5, <1>6, <1>7 DEF Next

(* The invariant says more than that no update is missed.                  *)
LEMMA InvImplies == BroadcastInv => NoUpdateMissed
<1> SUFFICES ASSUME BroadcastInv, NEW c \in Clients, Forwarding(c), NEW u \in doc
             PROVE  Gets(c, u)
  BY DEF NoUpdateMissed
<1>1. CASE asking[c] # 0
  BY <1>1 DEF Gets
<1>2. CASE asking[c] = 0
  <2>1. Reaches(c, u)
    BY <1>2 DEF BroadcastInv, Complete
  <2>2. ASSUME NEW id \in Ids, NEW m \in Members(subs[id].out), u \in m.ops
        PROVE  \E n \in DOMAIN subs[id].out : u \in subs[id].out[n].ops
    BY <2>2 DEF Members
  <2>3. QED
    BY <2>1, <2>2 DEF Reaches, Gets
<1>3. QED
  BY <1>1, <1>2

(* The invariant holds in every reachable state.                           *)
LEMMA Invariance == Spec => []BroadcastInv
<1>1. QED
  BY InitHolds, NextHolds, PTL DEF Spec

(* Messages, subscriptions and cursors are always well formed: no receiver *)
(* is ahead of the channel, whatever tasks of old and new subscriptions    *)
(* do (CollabBroadcast::subscribe).                                        *)
THEOREM TypeCorrect == Spec => []TypeOK
<1>1. BroadcastInv => TypeOK
  BY DEF BroadcastInv
<1>2. QED
  BY <1>1, Invariance, PTL

(* For any number of clients, updates and init syncs and any capacity: a   *)
(* client whose broadcasts are forwarded has or gets every update of the   *)
(* group's document (handle_collab_message renews the subscription before  *)
(* it passes the init sync on).                                            *)
THEOREM NothingMissed == Spec => []NoUpdateMissed
<1>1. QED
  BY InvImplies, Invariance, PTL

-----------------------------------------------------------------------------
(* The group and its channels implement CollabDocument.                     *)

(* What is broadcast or under way to a client is in the document.          *)
OfDocument ==
  /\ \A n \in DOMAIN log : log[n].ops \subseteq doc
  /\ \A id \in Ids : \A m \in Members(subs[id].out) : m.ops \subseteq doc

(* Only a connected client sends, and only to one is anything sent.        *)
Live ==
  /\ \A c \in Clients : up[c] # <<>> => c \in conn
  /\ \A id \in Ids :
       subs[id].open \/ subs[id].sinkOn \/ subs[id].out # <<>> => subs[id].client \in conn

DeliveryInv == BroadcastInv /\ OfDocument /\ Live

(* Nothing is under way at first.                                          *)
LEMMA DeliveryInit == Init => DeliveryInv
<1>1. Init => BroadcastInv
  BY InitHolds
<1>2. Init => OfDocument /\ Live
  BY DEF Init, OfDocument, Live, NoSubscription, Members
<1>3. QED
  BY <1>1, <1>2 DEF DeliveryInv

(* A step after which every subscription that sends did so before, with    *)
(* messages of the document.                                               *)
LEMMA DeliveryKept ==
  ASSUME OfDocument, Live, doc \subseteq doc',
         \A n \in DOMAIN log' : log'[n].ops \subseteq doc',
         \A c \in Clients : up'[c] # <<>> => c \in conn',
         \A id \in Ids :
           /\ \A m \in Members(subs'[id].out) :
                m \in Members(subs[id].out) \/ m.ops \subseteq doc'
           /\ subs'[id].open \/ subs'[id].sinkOn \/ subs'[id].out # <<>>
                => subs'[id].client \in conn'
  PROVE  OfDocument' /\ Live'
BY DEF OfDocument, Live

(* The steps that change neither the document nor what is broadcast, and   *)
(* one subscription at most, to which nothing is sent.                     *)
LEMMA SubscriptionQuiet ==
  ASSUME OfDocument, Live, UNCHANGED <<doc, log, conn>>,
         \A c \in Clients : up'[c] # <<>> => c \in conn,
         \A id \in Ids :
           /\ subs'[id].client = subs[id].client
           /\ subs'[id].open => subs[id].open
           /\ subs'[id].sinkOn => subs[id].sinkOn
           /\ subs'[id].out # <<>> => subs[id].out # <<>>
           /\ Members(subs'[id].out) \subseteq Members(subs[id].out)
  PROVE  OfDocument' /\ Live'
BY DEF OfDocument, Live

(* A client that makes an edit, connects or loses its connection.          *)
LEMMA ClientDelivers ==
  ASSUME DeliveryInv, TypeOK', NEW c \in Clients,
         Connect(c) \/ Disconnect(c) \/ \E u \in Updates : Edit(c, u)
  PROVE  OfDocument' /\ Live'
<1>1. /\ OfDocument /\ Live /\ subs \in [Ids -> Subscription]
      /\ up \in [Clients -> Seq(ClientMessage)]
  BY DEF DeliveryInv, BroadcastInv, TypeOK
<1>2. CASE \E u \in Updates : Edit(c, u)
  <2>1. UNCHANGED <<doc, log, subs, conn>>
    BY <1>2 DEF Edit, serverVars
  <2>2. \A d \in Clients : up'[d] # <<>> => d \in conn
    BY <1>1, <1>2 DEF Edit, Live
  <2>3. QED
    BY <1>1, <2>1, <2>2, SubscriptionQuiet
<1>3. CASE Connect(c)
  <2>1. UNCHANGED <<doc, log, subs>> /\ conn' = conn \cup {c}
    BY <1>3 DEF Connect, serverVars
  <2>2. \A d \in Clients : up'[d] # <<>> => d \in conn'
    BY <1>1, <1>3 DEF Connect, Live
  <2>3. QED
    BY <1>1, <2>1, <2>2 DEF OfDocument, Live
<1>4. CASE Disconnect(c)
  <2>1. /\ UNCHANGED <<doc, log>> /\ conn' = conn \ {c}
        /\ \A d \in Clients : up'[d] # <<>> => d # c /\ up[d] # <<>>
    BY <1>1, <1>4 DEF Disconnect
  <2>2. ASSUME NEW id \in Ids
        PROVE  \/ subs[id].client # c /\ subs'[id] = subs[id]
               \/ ~subs'[id].open /\ ~subs'[id].sinkOn /\ subs'[id].out = <<>>
    <3>1. subs[id] \in Subscription
      BY <1>1
    <3>2. QED
      BY <1>4, <3>1 DEF Disconnect, Subscription
  <2>3. Members(<<>>) = {}
    BY DEF Members
  <2>4. \A d \in Clients : up'[d] # <<>> => d \in conn'
    BY <1>1, <2>1 DEF Live
  <2>5. ASSUME NEW id \in Ids
        PROVE  /\ \A m \in Members(subs'[id].out) : m \in Members(subs[id].out)
               /\ subs'[id].open \/ subs'[id].sinkOn \/ subs'[id].out # <<>>
                    => subs'[id].client \in conn'
    BY <1>1, <2>1, <2>2, <2>3 DEF Live
  <2>6. QED
    BY <1>1, <2>1, <2>4, <2>5, DeliveryKept DEF OfDocument
<1>5. QED
  BY <1>2, <1>3, <1>4

(* A client that receives something has a connection: what it answers is   *)
(* sent over it.                                                           *)
LEMMA ReceiveDelivers ==
  ASSUME DeliveryInv, TypeOK', NEW id \in Ids, Receive(id)
  PROVE  /\ OfDocument' /\ Live'
         /\ subs[id].client \in conn /\ subs[id].client \in Clients
         /\ Head(subs[id].out).ops \subseteq doc
<1>1. /\ OfDocument /\ Live /\ BroadcastInv
      /\ subs[id].out # <<>>
      /\ subs' = [subs EXCEPT ![id].out = Tail(@)]
      /\ UNCHANGED <<doc, log, current, conn>>
      /\ up \in [Clients -> Seq(ClientMessage)]
  BY DEF DeliveryInv, BroadcastInv, TypeOK, Receive, ReceiveBroadcast, ReceiveReply, Arrived
<1>2. /\ subs[id].client \in Clients
      /\ Members(subs[id].out) = Members(subs'[id].out) \cup {Head(subs[id].out)}
      /\ \A j \in Ids : j # id => subs'[j] = subs[j]
      /\ \A j \in Ids : /\ subs'[j].client = subs[j].client
                        /\ subs'[j].sinkOn = subs[j].sinkOn
      /\ \A j \in Ids : Members(subs'[j].out) \subseteq Members(subs[j].out)
  BY <1>1, ArrivedFacts
<1>3. subs[id].client \in conn /\ Head(subs[id].out).ops \subseteq doc
  BY <1>1, <1>2 DEF OfDocument, Live
<1>4. \A d \in Clients : up'[d] # <<>> => d \in conn
  BY <1>1, <1>2, <1>3 DEF Receive, ReceiveBroadcast, ReceiveReply, TryInitSync, Live
<1>5. subs'[id].open = subs[id].open
  <2>1. subs[id] \in Subscription
    BY <1>1 DEF BroadcastInv, TypeOK
  <2>2. QED
    BY <1>1, <2>1 DEF BroadcastInv, TypeOK, Subscription
<1>6. \A j \in Ids : /\ subs'[j].open => subs[j].open
                     /\ subs'[j].out # <<>> => subs[j].out # <<>>
  BY <1>1, <1>2, <1>5
<1>7. OfDocument' /\ Live'
  BY <1>1, <1>2, <1>4, <1>6, SubscriptionQuiet
<1>8. QED
  BY <1>2, <1>3, <1>7

(* A subscription is made for a client that is connected.                  *)
LEMMA HandleDelivers ==
  ASSUME DeliveryInv, TypeOK', NEW c \in Clients, HandleMessage(c)
  PROVE  OfDocument' /\ Live'
<1> DEFINE msg == Head(up[c])
           init == msg.type = "init"
           renewed == IF init THEN [subs EXCEPT ![msg.id] = NewSubscription(c)] ELSE subs
<1>1. /\ OfDocument /\ Live /\ BroadcastInv
      /\ up[c] # <<>> /\ up[c] \in Seq(ClientMessage) /\ c \in conn
      /\ UNCHANGED <<doc, log, conn>>
      /\ up' = [up EXCEPT ![c] = Tail(@)]
      /\ up \in [Clients -> Seq(ClientMessage)]
      /\ subs \in [Ids -> Subscription]
  BY DEF DeliveryInv, BroadcastInv, TypeOK, HandleMessage, Live
<1>2. \A id \in Ids : subs'[id] =
        IF renewed[id].client = c /\ renewed[id].open /\ renewed[id].streamOn
          THEN [renewed[id] EXCEPT !.inbox = Append(@, msg)]
          ELSE renewed[id]
  BY DEF HandleMessage
<1>3. /\ NewSubscription(c) \in Subscription
      /\ NewSubscription(c).client = c /\ NewSubscription(c).out = <<>>
  <2>1. NoSubscription \in Subscription /\ NoSubscription.out = <<>>
    BY EmptySeqs DEF NoSubscription, Subscription
  <2>2. Len(log) \in Nat
    BY <1>1 DEF BroadcastInv, TypeOK
  <2>3. QED
    BY <2>1, <2>2 DEF NewSubscription, Subscription
<1>4. \A id \in Ids : /\ renewed[id] \in Subscription
                      /\ renewed[id] = NewSubscription(c) \/ renewed[id] = subs[id]
  BY <1>1, <1>3
<1> HIDE DEF renewed, msg
<1>5. \A id \in Ids :
        /\ subs'[id].client = renewed[id].client /\ subs'[id].out = renewed[id].out
        /\ subs'[id].open = renewed[id].open /\ subs'[id].sinkOn = renewed[id].sinkOn
  BY <1>2, <1>4 DEF Subscription
<1>6. Members(<<>>) = {}
  BY DEF Members
<1>7. ASSUME NEW id \in Ids
      PROVE  /\ \A m \in Members(subs'[id].out) : m \in Members(subs[id].out)
             /\ subs'[id].open \/ subs'[id].sinkOn \/ subs'[id].out # <<>>
                  => subs'[id].client \in conn'
  <2>1. CASE renewed[id] = NewSubscription(c)
    BY <1>1, <1>3, <1>5, <1>6, <2>1
  <2>2. CASE renewed[id] = subs[id]
    BY <1>1, <1>5, <2>2 DEF Live
  <2>3. QED
    BY <1>4, <2>1, <2>2
<1>8. \A d \in Clients : up'[d] # <<>> => d \in conn'
  BY <1>1 DEF Live
<1>9. QED
  BY <1>1, <1>7, <1>8, DeliveryKept DEF OfDocument

(* What the tasks of a subscription send is in the document, and an update *)
(* is in it when it is broadcast.                                          *)
LEMMA TaskDelivers ==
  ASSUME DeliveryInv, TypeOK', NEW id \in Ids,
         Stream(id) \/ Sink(id) \/ StopSink(id) \/ StopStream(id)
  PROVE  OfDocument' /\ Live'
<1>1. /\ OfDocument /\ Live /\ BroadcastInv /\ TypeOK
      /\ subs \in [Ids -> Subscription] /\ subs[id] \in Subscription
      /\ UNCHANGED <<up, conn>>
      /\ log \in Seq(Broadcast) /\ Len(log) \in Nat
  BY DEF DeliveryInv, BroadcastInv, TypeOK, Stream, StreamReplies, StreamApplies, Sink,
         Forward, FallBehind, StopSink, StopStream
<1>2. \A d \in Clients : up'[d] # <<>> => d \in conn'
  BY <1>1 DEF Live
<1>3. CASE StreamReplies(id)
  <2> DEFINE msg == Head(subs[id].inbox)
  <2>1. UNCHANGED <<doc, log>> /\ msg \in ClientMessage
    BY <1>1, <1>3, QueueFacts DEF StreamReplies
  <2>2. Reply(msg.id, doc) \in ServerMessage /\ Reply(msg.id, doc).ops = doc
    BY <1>1, <2>1, MessageFacts DEF ClientMessage, TypeOK, Reply
  <2>3. Members(Append(subs[id].out, Reply(msg.id, doc)))
          = Members(subs[id].out) \cup {Reply(msg.id, doc)}
    BY <1>1, <2>2, MembersAppend DEF Subscription
  <2>4. /\ \A j \in Ids : j # id => subs'[j] = subs[j]
        /\ subs'[id].client = subs[id].client /\ subs'[id].open = subs[id].open
        /\ subs'[id].sinkOn = subs[id].sinkOn
        /\ subs'[id].out = IF subs[id].open THEN Append(subs[id].out, Reply(msg.id, doc))
                                            ELSE subs[id].out
    BY <1>1, <1>3 DEF StreamReplies, Subscription
  <2> HIDE DEF msg
  <2>5. ASSUME NEW j \in Ids
        PROVE  /\ \A m \in Members(subs'[j].out) : m \in Members(subs[j].out) \/ m.ops \subseteq doc'
               /\ subs'[j].open \/ subs'[j].sinkOn \/ subs'[j].out # <<>>
                    => subs'[j].client \in conn'
    BY <1>1, <2>1, <2>2, <2>3, <2>4 DEF Live
  <2>6. QED
    BY <1>1, <1>2, <2>1, <2>5, DeliveryKept DEF OfDocument
<1>4. CASE StreamApplies(id)
  <2> DEFINE msg == Head(subs[id].inbox)
             entry == [origin |-> subs[id].client, ops |-> msg.ops \ doc]
  <2>1. /\ doc' = doc \cup msg.ops
        /\ log' = IF msg.ops \subseteq doc THEN log ELSE Append(log, entry)
    BY <1>4 DEF StreamApplies
  <2>2. entry.ops \subseteq doc'
    BY <2>1
  <2> HIDE DEF entry
  <2>3. \A n \in DOMAIN log' : log'[n] = entry \/ (n \in DOMAIN log /\ log'[n] = log[n])
    BY <1>1, <2>1
  <2>4. \A n \in DOMAIN log' : log'[n].ops \subseteq doc'
    BY <1>1, <2>1, <2>2, <2>3 DEF OfDocument
  <2>5. \A j \in Ids : /\ subs'[j].client = subs[j].client /\ subs'[j].open = subs[j].open
                       /\ subs'[j].sinkOn = subs[j].sinkOn /\ subs'[j].out = subs[j].out
    BY <1>1, <1>4 DEF StreamApplies, Subscription
  <2>6. QED
    BY <1>1, <1>2, <2>1, <2>4, <2>5, DeliveryKept DEF Live
<1>5. CASE Forward(id)
  <2> DEFINE next == subs[id].cursor + 1
             own == log[next].origin = subs[id].client
  <2>1. UNCHANGED <<doc, log>> /\ next \in 1 .. Len(log) /\ subs[id].sinkOn
    BY <1>1, <1>5 DEF Forward, Subscription
  <2>2. Forwarded(next) \in ServerMessage /\ Forwarded(next).ops = log[next].ops
    BY <1>1, <2>1, MessageFacts DEF Forwarded
  <2>3. Members(Append(subs[id].out, Forwarded(next)))
          = Members(subs[id].out) \cup {Forwarded(next)}
    BY <1>1, <2>2, MembersAppend DEF Subscription
  <2>4. /\ \A j \in Ids : j # id => subs'[j] = subs[j]
        /\ subs'[id].client = subs[id].client /\ subs'[id].open = subs[id].open
        /\ subs'[id].out = IF own THEN subs[id].out ELSE Append(subs[id].out, Forwarded(next))
    BY <1>1, <1>5 DEF Forward, Subscription
  <2>5. log[next].ops \subseteq doc
    BY <1>1, <2>1 DEF OfDocument
  <2> HIDE DEF next, own
  <2>6. ASSUME NEW j \in Ids
        PROVE  /\ \A m \in Members(subs'[j].out) : m \in Members(subs[j].out) \/ m.ops \subseteq doc'
               /\ subs'[j].open \/ subs'[j].sinkOn \/ subs'[j].out # <<>>
                    => subs'[j].client \in conn'
    BY <1>1, <2>1, <2>2, <2>3, <2>4, <2>5 DEF Live
  <2>7. QED
    BY <1>1, <1>2, <2>1, <2>6, DeliveryKept DEF OfDocument
<1>6. CASE FallBehind(id) \/ StopSink(id) \/ StopStream(id)
  <2>1. UNCHANGED <<doc, log>>
    BY <1>6 DEF FallBehind, StopSink, StopStream
  <2>2. \A j \in Ids : /\ subs'[j].client = subs[j].client /\ subs'[j].open = subs[j].open
                       /\ subs'[j].sinkOn => subs[j].sinkOn
                       /\ subs'[j].out = subs[j].out
    <3>1. CASE FallBehind(id) \/ StopSink(id)
      <4>1. subs' = [subs EXCEPT ![id].cursor = 0, ![id].sinkOn = FALSE]
        BY <3>1 DEF FallBehind, StopSink
      <4>2. QED
        BY <1>1, <4>1 DEF Subscription
    <3>2. CASE StopStream(id)
      BY <1>1, <3>2 DEF StopStream, Subscription
    <3>3. QED
      BY <1>6, <3>1, <3>2
  <2>3. QED
    BY <1>1, <1>2, <2>1, <2>2, SubscriptionQuiet
<1>7. QED
  BY <1>3, <1>4, <1>5, <1>6 DEF Stream, Sink

(* The strengthened invariant is inductive.                                *)
LEMMA DeliveryStep == DeliveryInv /\ [Next]_vars => DeliveryInv'
<1> SUFFICES ASSUME DeliveryInv, [Next]_vars PROVE OfDocument' /\ Live'
  BY NextHolds DEF DeliveryInv
<1>1. TypeOK'
  BY NextHolds DEF DeliveryInv, BroadcastInv
<1>2. CASE Next
  BY <1>1, <1>2, ClientDelivers, ReceiveDelivers, HandleDelivers, TaskDelivers DEF Next
<1>3. CASE UNCHANGED vars
  BY <1>3 DEF vars, serverVars, DeliveryInv, OfDocument, Live
<1>4. QED
  BY <1>2, <1>3

(* Every step is one of CollabDocument, or none.                           *)
LEMMA NextImplements == DeliveryInv /\ [Next]_vars => [Shared!DocumentNext]_(Shared!documentVars)
<1> SUFFICES ASSUME DeliveryInv, [Next]_vars
             PROVE  [Shared!DocumentNext]_(Shared!documentVars)
  OBVIOUS
<1>1. TypeOK /\ TypeOK' /\ BroadcastInv
  BY NextHolds DEF DeliveryInv, BroadcastInv
<1>2. ASSUME UNCHANGED <<doc, replica, conn>> PROVE UNCHANGED Shared!documentVars
  BY <1>2 DEF Shared!documentVars
<1>3. ASSUME NEW c \in Clients, NEW u \in Updates, Edit(c, u)
      PROVE  Shared!DocumentNext
  <2>1. Shared!Make(c, u)
    BY <1>3 DEF Edit, Made, serverVars, Shared!Make, Shared!Everything
  <2>2. QED
    BY <2>1 DEF Shared!DocumentNext
<1>4. ASSUME NEW c \in Clients, Connect(c)
      PROVE  Shared!DocumentNext
  <2>1. replica' = [replica EXCEPT ![c] = @ \cup {}]
    BY <1>1, <1>4 DEF Connect, TypeOK
  <2>2. Shared!Join(c)
    BY <1>4, <2>1 DEF Connect, serverVars, Shared!Join
  <2>3. QED
    BY <2>2 DEF Shared!DocumentNext
<1>5. ASSUME NEW c \in Clients, Disconnect(c)
      PROVE  Shared!DocumentNext
  <2>1. Shared!Leave(c)
    BY <1>5 DEF Disconnect, clientVars, Shared!Leave
  <2>2. QED
    BY <2>1 DEF Shared!DocumentNext
<1>6. ASSUME NEW id \in Ids, Receive(id)
      PROVE  [Shared!DocumentNext]_(Shared!documentVars)
  <2>1. /\ subs[id].client \in conn /\ subs[id].client \in Clients
        /\ Head(subs[id].out).ops \in SUBSET doc
    BY <1>1, <1>6, ReceiveDelivers
  <2>2. CASE UNCHANGED replica
    BY <1>2, <1>6, <2>2 DEF Receive, ReceiveBroadcast, ReceiveReply
  <2>3. CASE replica' = [replica EXCEPT ![subs[id].client] = @ \cup Head(subs[id].out).ops]
    <3>1. Shared!Learn(subs[id].client)
      BY <1>6, <2>1, <2>3 DEF Receive, ReceiveBroadcast, ReceiveReply, Shared!Learn
    <3>2. QED
      BY <2>1, <3>1 DEF Shared!DocumentNext
  <2>4. QED
    BY <1>6, <2>2, <2>3 DEF Receive, ReceiveBroadcast, ReceiveReply
<1>7. ASSUME NEW id \in Ids, StreamApplies(id)
      PROVE  Shared!DocumentNext
  <2>1. /\ subs[id] \in Subscription /\ subs[id] # NoSubscription
        /\ subs[id].inbox # <<>>
    BY <1>1, <1>7 DEF TypeOK, StreamApplies, NoSubscription
  <2>2. subs[id].client \in Clients
    BY <1>1, <2>1 DEF BroadcastInv, Named, Subscription
  <2>3. Head(subs[id].inbox) \in Members(subs[id].inbox)
    BY <2>1, MembersTail DEF Subscription
  <2>4. Head(subs[id].inbox).ops \subseteq replica[subs[id].client]
    BY <1>1, <2>2, <2>3 DEF BroadcastInv, Own
  <2>5. Shared!Accept(subs[id].client)
    BY <1>7, <2>4 DEF StreamApplies, clientVars, Shared!Accept
  <2>6. QED
    BY <2>2, <2>5 DEF Shared!DocumentNext
<1>8. ASSUME NEW c \in Clients, HandleMessage(c) PROVE UNCHANGED <<doc, replica, conn>>
  BY <1>8 DEF HandleMessage, clientVars
<1>9. ASSUME NEW id \in Ids, StreamReplies(id) \/ Sink(id) \/ StopSink(id) \/ StopStream(id)
      PROVE  UNCHANGED <<doc, replica, conn>>
  BY <1>9 DEF StreamReplies, Sink, Forward, FallBehind, StopSink, StopStream, clientVars
<1>10. CASE UNCHANGED vars
  BY <1>2, <1>10 DEF vars, serverVars, clientVars
<1>11. CASE Next
  BY <1>2, <1>3, <1>4, <1>5, <1>6, <1>7, <1>8, <1>9, <1>11 DEF Next, Stream
<1>12. QED
  BY <1>10, <1>11

(* The group, its subscriptions with their tasks and channels, and the      *)
(* clients implement CollabDocument: whatever is in flight when connections *)
(* are lost and subscriptions renewed, a client only learns of updates that *)
(* the group has applied, while it is connected, and the group's document   *)
(* only grows, by what its senders have (handle_client_collab_message).     *)
THEOREM BroadcastImplementsDocument == Spec => ImplementsDocument
<1>1. Init => Shared!DocumentInit
  BY DEF Init, Shared!DocumentInit
<1>2. QED
  BY <1>1, DeliveryInit, DeliveryStep, NextImplements, PTL
  DEF Spec, ImplementsDocument, Shared!DocumentSpec
=============================================================================
