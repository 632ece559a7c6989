--------------------------- MODULE SnapshotControl ---------------------------
(***************************************************************************)
(* The snapshots of collab objects (src/biz/snapshot): a command channel,  *)
(* a runner that keeps a priority queue of pending snapshots and their     *)
(* data in redis, a task that ticks it, requests that create a snapshot    *)
(* directly, and the table af_collab_snapshot.                             *)
(*                                                                         *)
(* A snapshot's data is a version number: later data has a greater one.    *)
(* The database runs transactions at its default level (read committed):   *)
(* a statement sees the rows committed when it starts and the rows of its  *)
(* own transaction, and a DELETE waits for the transaction that is         *)
(* deleting one of its rows, which it then skips.                          *)
(***************************************************************************)
EXTENDS Naturals, Sequences, FiniteSets

CONSTANTS
  Objects,      \* the collab objects
  Requests,     \* tasks of create_snapshot requests
  Runner,       \* the task of SnapshotCommandRunner
  Limit,        \* COLLAB_SNAPSHOT_LIMIT
  ChannelSize,  \* capacity of the command channel
  MaxVersion,   \* bound on the snapshots taken
  Undecodable,  \* the versions that check_encoded_collab_data refuses
  Faults,       \* the faults that may happen
  MaxFaults,    \* bound on their occurrences
  None          \* no data, no item

(* busy      another task holds the lock of the redis client (try_get)      *)
(* noTx      no connection is free to begin a transaction (try_begin)       *)
(* abort     the transaction fails                                          *)
(* insert    redis does not take the data                                   *)
(* remove    redis does not remove the data                                 *)
(* expire    the data expires, or redis loses it                            *)
FaultKinds == {"busy", "noTx", "abort", "insert", "remove", "expire"}

ASSUME SnapshotAssumption ==
  /\ Runner \notin Requests /\ IsFiniteSet(Requests)
  /\ Limit \in Nat \ {0}
  /\ ChannelSize \in Nat \ {0}
  /\ MaxVersion \in Nat
  /\ Undecodable \subseteq Nat
  /\ Faults \subseteq FaultKinds
  /\ MaxFaults \in Nat
  /\ None \notin Nat
  /\ None \notin [oid : Objects, seq : Nat]

VARIABLES
  commands,  \* the channel
  awaiting,  \* the ticking task waits for the answer to its Tick
  pending,   \* PendingQueue, a heap by seq
  idGen,     \* id_gen
  item,      \* the item process_next_batch works on
  cache,     \* SnapshotCache: the data redis has for each object
  rows,      \* the committed rows of each object
  tx,        \* the transaction of each task
  sid,       \* the last sid given to a row
  version,   \* the last version of a snapshot's data
  queued,    \* the last version redis took and did not lose, if it decodes
  wrote,     \* the last version that the runner committed, per object
  unremoved, \* the objects whose data redis kept when told to remove it
  faults     \* how many faults there were

queueVars == <<commands, awaiting, pending, idGen, item, cache, queued, unremoved>>
tableVars == <<rows, tx, sid, wrote>>
vars == <<queueVars, tableVars, version, faults>>

Writers == {Runner} \cup Requests
PendingItem == [oid : Objects, seq : Nat]
Tick == [type |-> "tick"]
InsertSnapshot(o, d) == [type |-> "insert", oid |-> o, data |-> d]
Command == {Tick} \cup {InsertSnapshot(o, d) : o \in Objects, d \in 1 .. MaxVersion}
Row == [sid : Nat, data : Nat]
Idle == [phase |-> "idle"]
Transaction ==
  [phase : {"inserted", "deleting", "deleted"}, oid : Objects, row : Row,
   victims : SUBSET Row]

Fault(kind) ==
  /\ kind \in Faults
  /\ faults < MaxFaults
  /\ faults' = faults + 1

Init ==
  /\ commands = <<>> /\ awaiting = FALSE
  /\ pending = {} /\ idGen = 0 /\ item = None
  /\ cache = [o \in Objects |-> None]
  /\ rows = [o \in Objects |-> {}]
  /\ tx = [w \in Writers |-> Idle]
  /\ sid = 0 /\ version = 0 /\ faults = 0
  /\ queued = [o \in Objects |-> 0] /\ wrote = [o \in Objects |-> 0]
  /\ unremoved = {}

-----------------------------------------------------------------------------
(* queue_snapshot waits while the channel is full.                         *)
QueueSnapshot(o) ==
  /\ version < MaxVersion
  /\ Len(commands) < ChannelSize
  /\ version' = version + 1
  /\ commands' = Append(commands, InsertSnapshot(o, version + 1))
  /\ UNCHANGED <<awaiting, pending, idGen, item, cache, queued, unremoved, tableVars, faults>>

(* Mutant of SendTick: it does not wait for room in the channel.           *)
SendTickBlindly ==
  /\ ~awaiting
  /\ awaiting' = TRUE
  /\ commands' = Append(commands, Tick)
  /\ UNCHANGED <<pending, idGen, item, cache, queued, unremoved, tableVars, version, faults>>

(* The ticking task sends the next Tick when the last one was answered.    *)
SendTick ==
  /\ ~awaiting
  /\ Len(commands) < ChannelSize
  /\ awaiting' = TRUE
  /\ commands' = Append(commands, Tick)
  /\ UNCHANGED <<pending, idGen, item, cache, queued, unremoved, tableVars, version, faults>>

NextCommand(type) == item = None /\ commands # <<>> /\ Head(commands).type = type

(* handle_command(InsertSnapshot): the data replaces that of a pending     *)
(* snapshot of the same object.                                            *)
HandleInsert ==
  LET cmd == Head(commands)
  IN  /\ NextCommand("insert")
      /\ commands' = Tail(commands)
      /\ pending' = pending \cup {[oid |-> cmd.oid, seq |-> idGen]}
      /\ idGen' = idGen + 1
      /\ \/ /\ cache' = [cache EXCEPT ![cmd.oid] = cmd.data]
            /\ queued' = [queued EXCEPT ![cmd.oid] =
                             IF cmd.data \in Undecodable THEN 0 ELSE cmd.data]
            /\ UNCHANGED faults
         \/ Fault("insert") /\ UNCHANGED <<cache, queued>>
      /\ UNCHANGED <<awaiting, item, unremoved, tableVars, version>>

(* The item with the smallest seq has the highest priority.                 *)
Foremost == {p \in pending : \A q \in pending : p.seq <= q.seq}

(* Redis has data of the object, and the data decodes into a collab.        *)
Writable(o) == cache[o] \notin Undecodable \cup {None}

Answered == awaiting' = FALSE

(* handle_command(Tick) with nothing to do, or with an item that has no    *)
(* data any more or whose data is invalid, which is dropped.               *)
TickNothing ==
  /\ NextCommand("tick")
  /\ commands' = Tail(commands)
  /\ \/ pending = {} /\ UNCHANGED pending
     \/ \E p \in Foremost : ~Writable(p.oid) /\ pending' = pending \ {p}
  /\ Answered
  /\ UNCHANGED <<idGen, item, cache, queued, unremoved, tableVars, version, faults>>

(* Mutant of TickLater: the item is not pushed back.                        *)
TickLaterDrops ==
  /\ NextCommand("tick")
  /\ commands' = Tail(commands)
  /\ \E p \in Foremost :
       /\ Fault("busy") \/ (Writable(p.oid) /\ Fault("noTx"))
       /\ pending' = pending \ {p}
  /\ Answered
  /\ UNCHANGED <<idGen, item, cache, queued, unremoved, tableVars, version>>

(* handle_command(Tick) when redis is locked or no transaction is to be     *)
(* had: the item is pushed back.                                            *)
TickLater ==
  /\ NextCommand("tick")
  /\ commands' = Tail(commands)
  /\ \E p \in Foremost : Fault("busy") \/ (Writable(p.oid) /\ Fault("noTx"))
  /\ Answered
  /\ UNCHANGED <<pending, idGen, item, cache, queued, unremoved, tableVars, version>>

(* create_snapshot_and_maintain_limit, first the INSERT.                    *)
Insert(w, o, d) ==
  /\ tx[w] = Idle
  /\ sid' = sid + 1
  /\ tx' = [tx EXCEPT ![w] = [phase |-> "inserted", oid |-> o,
                              row |-> [sid |-> sid + 1, data |-> d], victims |-> {}]]
  /\ UNCHANGED <<rows, wrote>>

(* handle_command(Tick) with an item to write.                              *)
TickWrite ==
  /\ NextCommand("tick")
  /\ commands' = Tail(commands)
  /\ \E p \in Foremost :
       /\ Writable(p.oid)
       /\ item' = p
       /\ pending' = pending \ {p}
       /\ Insert(Runner, p.oid, cache[p.oid])
  /\ UNCHANGED <<awaiting, idGen, cache, queued, unremoved, version, faults>>

(* create_collab_snapshot_handler.                                          *)
CreateSnapshot(w, o) ==
  /\ version < MaxVersion
  /\ version' = version + 1
  /\ Insert(w, o, version + 1)
  /\ UNCHANGED <<queueVars, faults>>

Visible(w) == rows[tx[w].oid] \cup {tx[w].row}

(* Mutant of Newest: one row too many is kept.                              *)
NewestAndOne(S) == {r \in S : Cardinality({q \in S : q.sid > r.sid}) <= Limit}

(* Mutant of Newest: one row too few is kept.                               *)
NewestButOne(S) == {r \in S : Cardinality({q \in S : q.sid > r.sid}) < Limit - 1}

Newest(S) == {r \in S : Cardinality({q \in S : q.sid > r.sid}) < Limit}

(* The DELETE of all rows but the newest ones starts: it picks its rows.    *)
StartDelete(w) ==
  /\ tx[w].phase = "inserted"
  /\ tx' = [tx EXCEPT ![w].phase = "deleting",
                      ![w].victims = Visible(w) \ Newest(Visible(w))]
  /\ UNCHANGED <<queueVars, rows, sid, wrote, version, faults>>

(* It ends when none of its rows is locked by another transaction.          *)
FinishDelete(w) ==
  /\ tx[w].phase = "deleting"
  /\ \A v \in Writers \ {w} :
       tx[v].phase = "deleted" => tx[v].victims \cap tx[w].victims = {}
  /\ tx' = [tx EXCEPT ![w].phase = "deleted", ![w].victims = @ \cap Visible(w)]
  /\ UNCHANGED <<queueVars, rows, sid, wrote, version, faults>>

Commit(w) ==
  /\ tx[w].phase = "deleted"
  /\ rows' = [rows EXCEPT ![tx[w].oid] = Visible(w) \ tx[w].victims]
  /\ wrote' = IF w = Runner THEN [wrote EXCEPT ![tx[w].oid] = tx[w].row.data] ELSE wrote
  /\ tx' = [tx EXCEPT ![w] = Idle]
  /\ UNCHANGED <<queueVars, sid, version, faults>>

(* Mutant of Abort: the item is not pushed back.                            *)
AbortDropsItem(w) ==
  /\ tx[w] # Idle
  /\ Fault("abort")
  /\ tx' = [tx EXCEPT ![w] = Idle]
  /\ IF w = Runner
       THEN item' = None /\ Answered /\ UNCHANGED pending
       ELSE UNCHANGED <<awaiting, pending, item>>
  /\ UNCHANGED <<commands, idGen, cache, queued, unremoved, rows, sid, wrote, version>>

(* A statement or the COMMIT fails; the runner pushes its item back.        *)
Abort(w) ==
  /\ tx[w] # Idle
  /\ Fault("abort")
  /\ tx' = [tx EXCEPT ![w] = Idle]
  /\ IF w = Runner
       THEN item' = None /\ Answered /\ pending' = pending \cup {item}
       ELSE UNCHANGED <<awaiting, pending, item>>
  /\ UNCHANGED <<commands, idGen, cache, queued, unremoved, rows, sid, wrote, version>>

(* Mutant of FinishTick: the data is left in redis.                         *)
FinishTickKeepsData ==
  /\ item # None /\ tx[Runner] = Idle
  /\ item' = None
  /\ Answered
  /\ UNCHANGED <<commands, cache, pending, idGen, queued, unremoved, tableVars, version,
                 faults>>

(* The runner has committed: the data is removed from redis.                *)
FinishTick ==
  /\ item # None /\ tx[Runner] = Idle
  /\ \/ cache' = [cache EXCEPT ![item.oid] = None] /\ UNCHANGED <<unremoved, faults>>
     \/ Fault("remove") /\ UNCHANGED cache /\ unremoved' = unremoved \cup {item.oid}
  /\ item' = None
  /\ Answered
  /\ UNCHANGED <<commands, pending, idGen, queued, tableVars, version>>

(* The data is kept for a day.                                              *)
Expire(o) ==
  /\ cache[o] # None
  /\ Fault("expire")
  /\ cache' = [cache EXCEPT ![o] = None]
  /\ queued' = [queued EXCEPT ![o] = 0]
  /\ UNCHANGED <<commands, awaiting, pending, idGen, item, unremoved, tableVars, version>>

-----------------------------------------------------------------------------
Write(w) == StartDelete(w) \/ FinishDelete(w) \/ Commit(w)
HandleTick == TickNothing \/ TickLater \/ TickWrite
RunnerStep == HandleInsert \/ HandleTick \/ Write(Runner) \/ FinishTick

Next ==
  \/ \E o \in Objects : QueueSnapshot(o) \/ Expire(o)
  \/ SendTick \/ RunnerStep
  \/ \E w \in Requests : Write(w) \/ \E o \in Objects : CreateSnapshot(w, o)
  \/ \E w \in Writers : Abort(w)

(* The runner and the ticking task are spawned loops, and the database      *)
(* finishes its transactions.                                               *)
Fairness ==
  /\ WF_vars(SendTick) /\ WF_vars(RunnerStep)
  /\ \A w \in Requests : WF_vars(Write(w))

Spec == Init /\ [][Next]_vars
FairSpec == Spec /\ Fairness
-----------------------------------------------------------------------------
TypeOK ==
  /\ commands \in Seq(Command) /\ Len(commands) <= ChannelSize
  /\ awaiting \in BOOLEAN
  /\ pending \in SUBSET PendingItem /\ idGen \in Nat
  /\ item \in PendingItem \cup {None}
  /\ cache \in [Objects -> Nat \cup {None}]
  /\ rows \in [Objects -> SUBSET Row]
  /\ tx \in [Writers -> Transaction \cup {Idle}]
  /\ sid \in Nat /\ version \in 0 .. MaxVersion /\ faults \in 0 .. MaxFaults
  /\ queued \in [Objects -> Nat] /\ wrote \in [Objects -> Nat]
  /\ unremoved \in SUBSET Objects

(* What redis took is not stranded there: until the runner has written the *)
(* latest data of an object, redis has that data and an item of the object *)
(* is queued or being processed.  A pushed back, overtaken or doubled item *)
(* (process_next_batch) does not change that.                              *)
NothingStranded ==
  \A o \in Objects :
    wrote[o] < queued[o] =>
      /\ cache[o] = queued[o]
      /\ (\E p \in pending : p.oid = o) \/ (item # None /\ item.oid = o)

(* Several items of one object lead to one row for the same data: the item *)
(* that comes later finds nothing in redis (process_next_batch), unless     *)
(* redis refused to remove it.                                             *)
WrittenOnce ==
  \A o \in Objects \ unremoved : \A r, q \in rows[o] : r.data = q.data => r = q

(* Transactions that run side by side exceed the limit by no more than one  *)
(* row for each other task (create_snapshot_and_maintain_limit).            *)
LimitNearlyKept ==
  \A o \in Objects : Cardinality(rows[o]) <= Limit + Cardinality(Requests)

(* Nor do they delete too much: an object that has Limit snapshots does not *)
(* get fewer, and one that has not keeps all it has.                        *)
KeepsEnough ==
  [][\A o \in Objects :
       \/ Cardinality(rows'[o]) >= Limit
       \/ rows[o] \subseteq rows'[o]]_vars

(* The data that redis took is written in the end, or later data of the    *)
(* same object is, unless redis loses it or gets later data that does not  *)
(* decode.                                                                 *)
QueuedIsWritten ==
  \A o \in Objects, v \in 1 .. MaxVersion : queued[o] = v ~> wrote[o] >= v \/ queued[o] = 0
=============================================================================
