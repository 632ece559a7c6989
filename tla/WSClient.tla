------------------------------ MODULE WSClient ------------------------------
(***************************************************************************)
(* The websocket client (lib/client-api/src/ws and native/{ping,retry}.rs):*)
(* connect and disconnect, which overlap, and the tasks that connect       *)
(* starts for a connection: one that pings, one that receives, one that    *)
(* sends, one that moves published messages into the aggregate queue, and  *)
(* the ticker, which takes batches out of it.  A connect replaces the      *)
(* sender, the pinger and the ticker of the one before; the receiver and   *)
(* the aggregator of that one go on.                                       *)
(*                                                                         *)
(* What the server sends to a collab's channel is in CollabSync.           *)
(***************************************************************************)
EXTENDS Integers, Sequences, FiniteSets, SequencesExt

CONSTANTS
  MaxConns,                \* bound on the calls of connect
  Infos,                   \* the ConnectInfo (access tokens) it is called with
  Messages,                \* the messages the collabs send, by increasing id
  InitSyncs,               \* those that are ClientInitSync
  maximum_init_sync,       \* in a batch (10 in the code)
  maximum_payload_size,    \* of a batch, where each message has size 1
  retry_connect_per_pings, \* pings without a pong (10 in the code)
  MaxDisconnects,          \* bound on the calls of disconnect
  MaxFaults,               \* bound on the faults of the network and of lagging
  None

Conns == 1 .. MaxConns

ASSUME WSAssumption ==
  /\ MaxConns \in Nat \ {0} /\ MaxDisconnects \in Nat /\ MaxFaults \in Nat
  /\ Messages \subseteq Nat /\ InitSyncs \subseteq Messages
  /\ maximum_init_sync \in Nat /\ maximum_payload_size \in Nat
  /\ retry_connect_per_pings \in Nat
  /\ None \notin Infos

VARIABLES
  state,                \* ConnectStateNotify
  current_conn_info,
  stop_ws_msg_loop_tx,  \* the connection whose sender it stops, or 0
  pinger,               \* the connection whose ping is kept, or 0
  ticker,               \* the connection whose ticker runs, or 0
  aggregators,          \* the number of aggregators that run
  conn,                 \* the connections and their tasks
  queue,                \* AggregateMessageQueue, a heap, in the order of its pops
  published,            \* the messages that were published so far
  sent, lost,           \* history: those sent, and those cleared or not sent
  disconnects,          \* the number of calls of disconnect
  disconnecting,        \* the number of those that are at an await
  faults                \* the number of faults

shared == <<state, current_conn_info>>
handles == <<stop_ws_msg_loop_tx, pinger, ticker, aggregators>>
messages == <<queue, published, sent, lost>>
counters == <<disconnects, disconnecting, faults>>
vars == <<shared, handles, conn, messages, counters>>

ConnectState == {"PingTimeout", "Connecting", "Connected", "Unauthorized", "Lost"}

(* A task is not started yet, runs, was told to stop, or has ended.        *)
Task == {"none", "running", "stopping", "ended"}
Alive(t) == t \in {"running", "stopping"}
Told(t) == IF t = "ended" THEN "ended" ELSE "stopping"

Conn ==
  [phase : {"none", "checked", "connecting", "up", "failed"}, info : Infos \cup {None},
   open : BOOLEAN,
   sender : Task, recv : Task, ping : Task,
   ping_count : 0 .. retry_connect_per_pings,
   out : SUBSET Messages]                    \* batches on their way to the sender

NoConn ==
  [phase |-> "none", info |-> None, open |-> FALSE, sender |-> "none", recv |-> "none",
   ping |-> "none", ping_count |-> 0, out |-> {}]

Init ==
  /\ state = "Lost" /\ current_conn_info = None
  /\ stop_ws_msg_loop_tx = 0 /\ pinger = 0 /\ ticker = 0
  /\ aggregators = 0
  /\ conn = [c \in Conns |-> NoConn]
  /\ queue = <<>> /\ published = {} /\ sent = {} /\ lost = {}
  /\ disconnects = 0 /\ disconnecting = 0 /\ faults = 0

-----------------------------------------------------------------------------
(* Connecting.                                                             *)

(* Mutant of StopSender: nobody is told.                                   *)
StopSenderNever(cs) == cs

(* A sender that is told to stop before it starts stops when it starts;    *)
(* to drop the sending half of its channel tells it too.                   *)
StopSender(cs) ==
  [c \in Conns |-> IF c = stop_ws_msg_loop_tx
     THEN [cs[c] EXCEPT !.sender = Told(cs[c].sender)] ELSE cs[c]]
StopPing(cs) ==
  [c \in Conns |-> IF c = pinger THEN [cs[c] EXCEPT !.ping = Told(cs[c].ping)] ELSE cs[c]]

Cleaned == StopPing(StopSender(conn))
Clear == queue' = <<>> /\ lost' = lost \cup ToSet(queue) /\ UNCHANGED <<published, sent>>

connect(c, info) ==
  /\ conn[c].phase = "none" /\ (\A d \in Conns : d < c => conn[d].phase # "none")
  /\ state # "Connecting"
  /\ conn' = [conn EXCEPT ![c].phase = "checked", ![c].info = info]
  /\ UNCHANGED <<shared, handles, messages, counters>>

(* After the awaits of clean, in which another connect may have started.   *)
StartConnecting(c) ==
  /\ conn[c].phase = "checked"
  /\ conn' = [Cleaned EXCEPT ![c].phase = "connecting"]
  /\ Clear
  /\ state' = "Connecting"
  /\ stop_ws_msg_loop_tx' = c
  /\ current_conn_info' = conn[c].info
  /\ UNCHANGED <<pinger, ticker, aggregators, counters>>

(* retry_connect gives up when the connection is no longer the current     *)
(* one, and otherwise tries again after a while.                           *)
should_retry(c) == current_conn_info = conn[c].info

ConnectFails(c, authError) ==
  /\ conn[c].phase = "connecting"
  /\ authError \/ ~should_retry(c)
  /\ conn' = [conn EXCEPT ![c].phase = "failed"]
  /\ state' = IF authError THEN "Unauthorized" ELSE "Lost"
  /\ UNCHANGED <<current_conn_info, handles, messages, counters>>

(* The tasks that receive what is sent to all the senders.                 *)
Senders == {c \in Conns : conn[c].phase = "up" /\ Alive(conn[c].sender)}

(* The ping before is dropped, and set_sender stops the ticker before (a   *)
(* batch that one still takes is lost with its connection).                *)
set_sender(c) == ticker' = c

(* The first ping may be sent before there is a sender to receive it.      *)
ConnectSucceeds(c) ==
  /\ conn[c].phase = "connecting"
  /\ \E early \in BOOLEAN :
       /\ early => Senders = {}
       /\ conn' = [StopPing(conn) EXCEPT
            ![c].phase = "up", ![c].open = TRUE,
            ![c].sender = IF @ = "none" THEN "running" ELSE @,
            ![c].recv = "running", ![c].ping = IF early THEN "ended" ELSE "running"]
       /\ state' = IF early THEN "PingTimeout" ELSE "Connected"
  /\ pinger' = c
  /\ set_sender(c)
  /\ aggregators' = aggregators + 1
  /\ UNCHANGED <<current_conn_info, stop_ws_msg_loop_tx, messages, counters>>

(* A call of disconnect tells the sender, and waits for the other locks.   *)
disconnect ==
  /\ disconnects < MaxDisconnects
  /\ disconnects' = disconnects + 1 /\ disconnecting' = disconnecting + 1
  /\ conn' = StopSender(conn)
  /\ stop_ws_msg_loop_tx' = 0
  /\ UNCHANGED <<shared, pinger, ticker, aggregators, messages, faults>>

(* Then, whatever was connected by now, it goes on to the end.  The Close  *)
(* goes to the senders that have not ended, each of which takes it or sees *)
(* first that it was told to stop.                                         *)
Disconnected ==
  /\ disconnecting > 0
  /\ disconnecting' = disconnecting - 1
  /\ \E closed \in SUBSET Senders :
       conn' = [c \in Conns |-> [StopPing(conn)[c] EXCEPT !.open = @ /\ c \notin closed]]
  /\ Clear
  /\ current_conn_info' = None
  /\ state' = "Lost"
  /\ UNCHANGED <<handles, disconnects, faults>>

-----------------------------------------------------------------------------
(* The ping task.                                                          *)
PingEnds(c) == conn' = [conn EXCEPT ![c].ping = "ended", ![c].ping_count = 0]

(* The pings without a pong are counted up to the limit.                   *)
CountPing(c) ==
  IF conn[c].ping_count >= retry_connect_per_pings
    THEN state' = "PingTimeout" /\ UNCHANGED conn
    ELSE conn' = [conn EXCEPT ![c].ping_count = @ + 1] /\ UNCHANGED state

(* The ping goes to every sender there is.  The count of a ping that was   *)
(* replaced is dropped with it, and it changes the state no more.          *)
PingTick(c) ==
  /\ conn[c].phase = "up" /\ Alive(conn[c].ping)
  /\ IF Senders = {}
       THEN PingEnds(c) /\ state' = "PingTimeout"
       ELSE pinger = c /\ CountPing(c)
  /\ UNCHANGED <<current_conn_info, handles, messages, counters>>

(* Mutant of Pong: a closed channel is taken for a pong.                   *)
PongOrClosed(c) ==
  /\ Alive(conn[c].ping) /\ pinger = c
  /\ conn[c].open \/ conn[c].recv = "ended"
  /\ conn' = [conn EXCEPT ![c].ping_count = 0]
  /\ state' = "Connected"
  /\ UNCHANGED <<current_conn_info, handles, messages, counters>>

(* The receiver hands the pinger a pong of the server; when it has ended   *)
(* the channel is closed and gives None at once, again and again.          *)
Pong(c) ==
  /\ Alive(conn[c].ping) /\ pinger = c
  /\ conn[c].open /\ conn[c].recv = "running"
  /\ conn' = [conn EXCEPT ![c].ping_count = 0]
  /\ state' = "Connected"
  /\ UNCHANGED <<current_conn_info, handles, messages, counters>>

PingStops(c) ==
  /\ conn[c].phase = "up" /\ conn[c].ping = "stopping"
  /\ PingEnds(c)
  /\ UNCHANGED <<shared, handles, messages, counters>>

-----------------------------------------------------------------------------
(* The receiving task.                                                     *)

Fault == faults < MaxFaults /\ faults' = faults + 1 /\ UNCHANGED <<disconnects, disconnecting>>

(* A connection is closed once both its halves are dropped.                *)
RecvEnded(c) ==
  conn' = [conn EXCEPT ![c].recv = "ended", ![c].open = @ /\ conn[c].sender # "ended"]

(* KickOff, DuplicateConnection, Close, an error, the end of the stream,   *)
(* or a ping of the server that no sender can answer.                      *)
RecvEnds(c) ==
  /\ conn[c].recv = "running"
  /\ IF conn[c].open THEN Fault ELSE UNCHANGED counters
  /\ RecvEnded(c)
  /\ UNCHANGED <<shared, handles, messages>>

(* A pong that nobody waits for.                                           *)
PongUnread(c) ==
  /\ conn[c].recv = "running" /\ conn[c].open /\ ~Alive(conn[c].ping)
  /\ RecvEnded(c)
  /\ UNCHANGED <<shared, handles, messages, counters>>

(* The connection breaks, or the server closes it.                         *)
Breaks(c) ==
  /\ conn[c].open /\ Fault
  /\ conn' = [conn EXCEPT ![c].open = FALSE]
  /\ UNCHANGED <<shared, handles, messages>>

-----------------------------------------------------------------------------
(* The sending task.                                                       *)
SenderEnds(c) ==
  /\ conn' = [conn EXCEPT ![c].sender = "ended", ![c].out = {},
                         ![c].open = @ /\ conn[c].recv # "ended"]
  /\ lost' = lost \cup conn[c].out
  /\ UNCHANGED <<queue, published, sent>>

SenderStops(c) ==
  /\ conn[c].phase = "up" /\ conn[c].sender = "stopping"
  /\ SenderEnds(c)
  /\ UNCHANGED <<shared, handles, counters>>

(* send_message: a batch above MAXIMUM_MESSAGE_SIZE is handed to the HTTP  *)
(* sender; an error ends the task if the connection is known to be closed, *)
(* and loses the message if not.                                           *)
Sent(c) ==
  /\ conn' = [conn EXCEPT ![c].out = {}]
  /\ sent' = sent \cup conn[c].out
  /\ UNCHANGED <<queue, published, lost>>

NotSent(c) ==
  /\ conn' = [conn EXCEPT ![c].out = {}]
  /\ lost' = lost \cup conn[c].out
  /\ UNCHANGED <<queue, published, sent>>

send_message(c, overHttp) ==
  \/ (overHttp \/ conn[c].open) /\ Sent(c)
  \/ ~overHttp /\ ~conn[c].open /\ (NotSent(c) \/ SenderEnds(c))

SendBatch(c) ==
  /\ Alive(conn[c].sender) /\ conn[c].out # {}
  /\ \E overHttp \in BOOLEAN : send_message(c, overHttp)
  /\ UNCHANGED <<shared, handles, counters>>

(* A ping or a pong that cannot be sent may show that all is closed.       *)
SendFails(c) ==
  /\ conn[c].phase = "up" /\ Alive(conn[c].sender) /\ ~conn[c].open
  /\ SenderEnds(c)
  /\ UNCHANGED <<shared, handles, counters>>

-----------------------------------------------------------------------------
(* The aggregate queue.                                                    *)
(* The order in which the heap is emptied: init syncs, which are equal (by *)
(* id here), then the others by id.                                        *)
Before(m, n) ==
  \/ m \in InitSyncs /\ n \notin InitSyncs
  \/ (m \in InitSyncs <=> n \in InitSyncs) /\ m < n

(* A collab's sink publishes a message: every aggregator pushes it, to     *)
(* where it will be popped; with none the message is dropped.              *)
Publish(m) ==
  /\ m \notin published /\ aggregators > 0
  /\ published' = published \cup {m}
  /\ \E k \in 0 .. Len(queue) :
       /\ \A i \in 1 .. Len(queue) : i <= k <=> Before(queue[i], m)
       /\ queue' = SubSeq(queue, 1, k) \o [i \in 1 .. aggregators |-> m]
                     \o SubSeq(queue, k + 1, Len(queue))
  /\ UNCHANGED <<shared, handles, conn, sent, lost, counters>>

(* An aggregator that lags buffer_capacity messages behind ends.           *)
Lags ==
  /\ aggregators > 0 /\ Fault
  /\ aggregators' = aggregators - 1
  /\ UNCHANGED <<shared, stop_ws_msg_loop_tx, pinger, ticker, conn, messages>>

(* The message that goes over a limit is in the batch.                     *)
Full(s) == Cardinality({i \in DOMAIN s : s[i] \in InitSyncs}) > maximum_init_sync
             \/ Len(s) > maximum_payload_size

(* Mutant of next_batch_message: the last popped is lost.                  *)
next_batch_dropping(s) ==
  LET k == CHOOSE i \in 0 .. Len(s) :
             /\ i = Len(s) \/ Full(SubSeq(s, 1, i))
             /\ \A j \in 0 .. i - 1 : ~Full(SubSeq(s, 1, j))
  IN  [batch |-> SubSeq(s, 1, IF Full(SubSeq(s, 1, k)) THEN k - 1 ELSE k),
       rest |-> SubSeq(s, k + 1, Len(s))]

next_batch_message(s) ==
  LET k == CHOOSE i \in 0 .. Len(s) :
             /\ i = Len(s) \/ Full(SubSeq(s, 1, i))
             /\ \A j \in 0 .. i - 1 : ~Full(SubSeq(s, 1, j))
  IN  [batch |-> SubSeq(s, 1, k), rest |-> SubSeq(s, k + 1, Len(s))]

(* The ticker; the channel is closed once the sender has ended.            *)
Tick(c) ==
  /\ ticker = c /\ queue # <<>>
  /\ LET next == next_batch_message(queue)
         batch == ToSet(next.batch)
     IN  /\ queue' = next.rest
         /\ IF conn[c].sender = "ended"
              THEN lost' = lost \cup batch /\ UNCHANGED conn
              ELSE conn' = [conn EXCEPT ![c].out = @ \cup batch] /\ UNCHANGED lost
  /\ UNCHANGED <<shared, handles, published, sent, counters>>

-----------------------------------------------------------------------------
Calls ==
  \/ \E c \in Conns, info \in Infos : connect(c, info)
  \/ disconnect \/ Disconnected
  \/ \E m \in Messages : Publish(m)

Connecting(c) ==
  \/ StartConnecting(c) \/ ConnectSucceeds(c)
  \/ \E authError \in BOOLEAN : ConnectFails(c, authError)

Faults(c) == RecvEnds(c) \/ PongUnread(c) \/ Breaks(c) \/ SendFails(c)

PingTask(c) == PingTick(c) \/ Pong(c) \/ PingStops(c)
SendTask(c) == SenderStops(c) \/ SendBatch(c)

Next ==
  \/ Calls \/ Lags
  \/ \E c \in Conns : \/ Connecting(c) \/ Faults(c)
                      \/ PingTask(c) \/ SendTask(c) \/ Tick(c)

Spec == Init /\ [][Next]_vars

(* The tasks run: the interval of the pings, that of the ticker, and the   *)
(* select! of the sender, which sees the stop in the end.                  *)
FairSpec ==
  /\ Spec
  /\ \A c \in Conns :
       /\ WF_vars(PingTick(c)) /\ WF_vars(PingStops(c))
       /\ WF_vars(SendBatch(c)) /\ WF_vars(SenderStops(c))
       /\ WF_vars(Tick(c))

-----------------------------------------------------------------------------
(* The values the variables take.                                          *)
TypeOK ==
  /\ state \in ConnectState /\ current_conn_info \in Infos \cup {None}
  /\ {stop_ws_msg_loop_tx, pinger, ticker, aggregators} \subseteq 0 .. MaxConns
  /\ conn \in [Conns -> Conn]
  /\ queue \in Seq(Messages)
  /\ published \subseteq Messages /\ sent \cup lost \subseteq published
  /\ disconnects \in 0 .. MaxDisconnects /\ disconnecting \in 0 .. disconnects
  /\ faults \in 0 .. MaxFaults

(* However calls of connect and disconnect overlap, at most one connection *)
(* has a sender that nobody told to stop, and at most one such a pinger:   *)
(* connect replaces those of the one before (clean, start_ping).           *)
Unstopped(task) == {c \in Conns : conn[c][task] = "running"}
OneOfEach == \A task \in {"sender", "ping"} : Cardinality(Unstopped(task)) <= 1

(* A connection that no longer answers is noticed: its pinger reports      *)
(* PingTimeout unless it was replaced or stopped, although the task that   *)
(* received the pongs has ended without a word.                            *)
PingNotices ==
  \A c \in Conns :
    (conn[c].ping = "running" /\ (~conn[c].open \/ conn[c].recv = "ended"))
      ~> (state = "PingTimeout" \/ conn[c].ping # "running")

(* A message in the queue is sent.  It is lost only if the connection had a *)
(* fault, was disconnected, or was replaced by another call of connect: no *)
(* limit of a batch drops one (next_batch_message), and no queue is left   *)
(* behind without a ticker (set_sender).                                   *)
Disrupted ==
  \/ faults > 0 \/ disconnects > 0
  \/ \E c, d \in Conns : c # d /\ "none" \notin {conn[c].phase, conn[d].phase}
MessagesAreSent ==
  \A m \in Messages : m \in ToSet(queue) ~> (m \in sent \/ (Disrupted /\ m \in lost))
=============================================================================
