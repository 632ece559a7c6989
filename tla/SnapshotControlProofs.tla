----------------------- MODULE SnapshotControlProofs -----------------------
(***************************************************************************)
(* Theorems about SnapshotControl, for any sets of objects and requests,   *)
(* any limits and any number of faults: its type invariant, that the data  *)
(* redis took is never stranded there, that no DELETE takes too many rows  *)
(* and that all of them leave few too many, and that no data is written    *)
(* twice.                                                                  *)
(***************************************************************************)
EXTENDS SnapshotControl, SequenceTheorems, FiniteSetTheorems, WellFoundedInduction, TLAPS

(* A transaction of the runner writes the item, and no older data than is  *)
(* owed for its object.                                                    *)
Working ==
  tx[Runner] # Idle =>
    /\ item # None /\ item.oid = tx[Runner].oid
    /\ tx[Runner].row.data >= queued[item.oid]

(* When the transaction has been committed nothing is owed.                *)
Settled == item # None /\ tx[Runner] = Idle => wrote[item.oid] >= queued[item.oid]

(* What is owed is what redis has, and it decodes.                         *)
Current ==
  \A o \in Objects :
    /\ cache[o] # None => queued[o] \in {0, cache[o]}
    /\ queued[o] = 0 \/ queued[o] \notin Undecodable

SnapshotInv == TypeOK /\ Working /\ Settled /\ Current /\ NothingStranded

-----------------------------------------------------------------------------

(* What the commands are, and which is the next.                           *)
LEMMA CommandFacts ==
  ASSUME TypeOK
  PROVE  /\ \A o \in Objects, d \in 1 .. MaxVersion : InsertSnapshot(o, d) \in Command
         /\ Tick \in Command
         /\ commands # <<>> => Tail(commands) \in Seq(Command)
                            /\ Len(Tail(commands)) <= ChannelSize
         /\ \A c \in Command : Len(commands) < ChannelSize =>
              Append(commands, c) \in Seq(Command) /\ Len(Append(commands, c)) <= ChannelSize
<1>1. commands \in Seq(Command) /\ Len(commands) <= ChannelSize
  BY DEF TypeOK
<1>2. ChannelSize \in Nat
  BY SnapshotAssumption
<1>3. commands # <<>> => Tail(commands) \in Seq(Command)
                      /\ Len(Tail(commands)) <= ChannelSize
  BY <1>1, <1>2, HeadTailProperties
<1>4. \A c \in Command : Len(commands) < ChannelSize =>
        Append(commands, c) \in Seq(Command) /\ Len(Append(commands, c)) <= ChannelSize
  BY <1>1, <1>2, AppendProperties
<1>5. ASSUME NEW o \in Objects, NEW d \in 1 .. MaxVersion
      PROVE  InsertSnapshot(o, d) \in Command
  BY DEF Command
<1>6. Tick \in Command
  BY DEF Command
<1>7. QED
  BY <1>3, <1>4, <1>5, <1>6

(* An insert command names an object and a version.                        *)
LEMMA InsertCommand ==
  ASSUME TypeOK, NextCommand("insert")
  PROVE  /\ Head(commands).oid \in Objects
         /\ Head(commands).data \in Nat \ {0}
<1>1. Head(commands) \in Command
  BY HeadTailProperties DEF TypeOK, NextCommand
<1>2. Head(commands) # Tick
  BY DEF NextCommand, Tick
<1>3. PICK o \in Objects, d \in 1 .. MaxVersion : Head(commands) = InsertSnapshot(o, d)
  BY <1>1, <1>2 DEF Command
<1>4. QED
  BY <1>3, SnapshotAssumption DEF InsertSnapshot

(* A transaction that is under way is a Transaction.                       *)
LEMMA TxFacts ==
  ASSUME TypeOK, NEW w \in Writers
  PROVE  /\ tx[w] # Idle => tx[w] \in Transaction
         /\ tx[w].phase \in {"inserted", "deleting", "deleted"} => tx[w] # Idle
BY DEF TypeOK, Idle

(* Redis has a version of an object that may be written.                   *)
LEMMA WritableFacts ==
  ASSUME TypeOK, NEW o \in Objects, Writable(o)
  PROVE  cache[o] \in Nat
BY DEF TypeOK, Writable

-----------------------------------------------------------------------------
(* Every initial state is well typed.                                      *)
LEMMA TypeInit == Init => TypeOK
<1>1. <<>> \in Seq(Command) /\ Len(<<>>) = 0
  BY EmptySeq
<1> SUFFICES ASSUME Init PROVE TypeOK
  OBVIOUS
<1>2. commands \in Seq(Command) /\ Len(commands) <= ChannelSize
  BY <1>1, SnapshotAssumption DEF Init
<1>3. tx \in [Writers -> Transaction \cup {Idle}]
  BY DEF Init
<1>4. version \in 0 .. MaxVersion /\ faults \in 0 .. MaxFaults
  BY SnapshotAssumption DEF Init
<1>5. cache \in [Objects -> Nat \cup {None}] /\ rows \in [Objects -> SUBSET Row]
  BY DEF Init
<1>6. QED
  BY <1>2, <1>3, <1>4, <1>5 DEF Init, TypeOK

(* Every step keeps the state well typed.                                  *)
LEMMA TypeStep == TypeOK /\ Working /\ [Next]_vars => TypeOK'
<1> SUFFICES ASSUME TypeOK, Working, [Next]_vars PROVE TypeOK'
  OBVIOUS
<1> USE CommandFacts
<1>0. /\ Runner \in Writers
      /\ \A w \in Requests : w \in Writers
  BY DEF Writers
<1>1. ASSUME NEW o \in Objects, QueueSnapshot(o) PROVE TypeOK'
  BY <1>1, SnapshotAssumption DEF QueueSnapshot, TypeOK, tableVars
<1>2. CASE SendTick
  BY <1>2 DEF SendTick, TypeOK, tableVars
<1>3. CASE HandleInsert
  <2>1. [oid |-> Head(commands).oid, seq |-> idGen] \in PendingItem
    BY <1>3, InsertCommand DEF HandleInsert, TypeOK, PendingItem
  <2>2. commands' \in Seq(Command) /\ Len(commands') <= ChannelSize
    BY <1>3 DEF HandleInsert, NextCommand
  <2>3. cache' \in [Objects -> Nat \cup {None}] /\ queued' \in [Objects -> Nat]
    <3>1. Head(commands).oid \in Objects /\ Head(commands).data \in Nat
      BY <1>3, InsertCommand DEF HandleInsert
    <3>2. \/ UNCHANGED <<cache, queued>>
          \/ /\ cache' = [cache EXCEPT ![Head(commands).oid] = Head(commands).data]
             /\ queued' = [queued EXCEPT ![Head(commands).oid] =
                  IF Head(commands).data \in Undecodable THEN 0 ELSE Head(commands).data]
      BY <1>3 DEF HandleInsert
    <3>3. CASE UNCHANGED <<cache, queued>>
      BY <3>3 DEF TypeOK
    <3>4. CASE /\ cache' = [cache EXCEPT ![Head(commands).oid] = Head(commands).data]
               /\ queued' = [queued EXCEPT ![Head(commands).oid] =
                    IF Head(commands).data \in Undecodable THEN 0 ELSE Head(commands).data]
      <4> DEFINE d == Head(commands).data
                 o == Head(commands).oid
      <4>1. o \in Objects /\ d \in Nat
        BY <3>1
      <4> HIDE DEF d, o
      <4>2. cache' = [cache EXCEPT ![o] = d]
        BY <3>4 DEF d, o
      <4>3. queued' = [queued EXCEPT ![o] = IF d \in Undecodable THEN 0 ELSE d]
        BY <3>4 DEF d, o
      <4>4. QED
        BY <4>1, <4>2, <4>3 DEF TypeOK
    <3>5. QED
      BY <3>2, <3>3, <3>4
  <2>4. faults' \in 0 .. MaxFaults
    BY <1>3, SnapshotAssumption DEF HandleInsert, TypeOK, Fault
  <2>5. QED
    BY <1>3, <2>1, <2>2, <2>3, <2>4 DEF HandleInsert, TypeOK, tableVars
<1>4. CASE TickNothing
  BY <1>4 DEF TickNothing, NextCommand, Answered, TypeOK, tableVars
<1>5. CASE TickLater
  <2>1. faults' \in 0 .. MaxFaults
    BY <1>5, SnapshotAssumption DEF TickLater, Fault, TypeOK
  <2>2. commands' \in Seq(Command) /\ Len(commands') <= ChannelSize
    BY <1>5 DEF TickLater, NextCommand
  <2>3. QED
    BY <1>5, <2>1, <2>2 DEF TickLater, Answered, TypeOK, tableVars
<1>6. CASE TickWrite
  <2>1. PICK p \in pending :
          /\ Writable(p.oid) /\ item' = p /\ pending' = pending \ {p}
          /\ Insert(Runner, p.oid, cache[p.oid])
    BY <1>6 DEF TickWrite, Foremost
  <2>2. p \in PendingItem /\ p.oid \in Objects
    BY <2>1 DEF TypeOK, PendingItem
  <2>3. cache[p.oid] \in Nat
    BY <2>1, <2>2, WritableFacts
  <2>4. [phase |-> "inserted", oid |-> p.oid,
         row |-> [sid |-> sid + 1, data |-> cache[p.oid]], victims |-> {}] \in Transaction
    BY <2>2, <2>3 DEF TypeOK, Transaction, Row
  <2>5. tx' \in [Writers -> Transaction \cup {Idle}]
    BY <2>1, <2>4, <1>0 DEF Insert, TypeOK
  <2>6. commands' \in Seq(Command) /\ Len(commands') <= ChannelSize
    BY <1>6 DEF TickWrite, NextCommand
  <2>7. sid' \in Nat /\ UNCHANGED <<rows, wrote>>
    BY <2>1 DEF Insert, TypeOK
  <2>8. pending' \in SUBSET PendingItem /\ item' \in PendingItem \cup {None}
    BY <2>1, <2>2 DEF TypeOK
  <2>9. QED
    BY <1>6, <2>5, <2>6, <2>7, <2>8 DEF TickWrite, TypeOK
<1>7. ASSUME NEW w \in Requests, NEW o \in Objects, CreateSnapshot(w, o) PROVE TypeOK'
  <2>1. [phase |-> "inserted", oid |-> o,
         row |-> [sid |-> sid + 1, data |-> version + 1], victims |-> {}] \in Transaction
    BY DEF TypeOK, Transaction, Row
  <2>2. tx' \in [Writers -> Transaction \cup {Idle}]
    BY <1>7, <2>1, <1>0 DEF CreateSnapshot, Insert, TypeOK
  <2>3. QED
    BY <1>7, <2>2, SnapshotAssumption DEF CreateSnapshot, Insert, TypeOK, queueVars
<1>8. ASSUME NEW w \in Writers, Write(w) PROVE TypeOK'
  <2>1. tx[w] \in Transaction
    BY <1>8, TxFacts DEF Write, StartDelete, FinishDelete, Commit
  <2>2. Visible(w) \in SUBSET Row
    BY <2>1 DEF Visible, Transaction, TypeOK
  <2>3. CASE StartDelete(w)
    <3>1. tx' \in [Writers -> Transaction \cup {Idle}]
      BY <2>1, <2>2, <2>3 DEF StartDelete, Transaction, TypeOK
    <3>2. QED
      BY <2>3, <3>1 DEF StartDelete, TypeOK, queueVars
  <2>4. CASE FinishDelete(w)
    <3>1. tx' \in [Writers -> Transaction \cup {Idle}]
      BY <2>1, <2>2, <2>4 DEF FinishDelete, Transaction, TypeOK
    <3>2. QED
      BY <2>4, <3>1 DEF FinishDelete, TypeOK, queueVars
  <2>5. CASE Commit(w)
    <3>1. rows' \in [Objects -> SUBSET Row]
      BY <2>1, <2>2, <2>5 DEF Commit, TypeOK
    <3>2. wrote' \in [Objects -> Nat]
      BY <2>1, <2>5 DEF Commit, TypeOK, Transaction, Row
    <3>3. tx' \in [Writers -> Transaction \cup {Idle}]
      BY <2>5 DEF Commit, TypeOK
    <3>4. QED
      BY <2>5, <3>1, <3>2, <3>3 DEF Commit, TypeOK, queueVars
  <2>6. QED
    BY <1>8, <2>3, <2>4, <2>5 DEF Write
<1>9. ASSUME NEW w \in Writers, Abort(w) PROVE TypeOK'
  <2>1. tx' \in [Writers -> Transaction \cup {Idle}]
    BY <1>9 DEF Abort, TypeOK
  <2>2. /\ awaiting' \in BOOLEAN
        /\ pending' \in SUBSET PendingItem
        /\ item' \in PendingItem \cup {None}
    BY <1>9 DEF Abort, Answered, TypeOK, Working
  <2>3. faults' \in 0 .. MaxFaults
    BY <1>9, SnapshotAssumption DEF Abort, Fault, TypeOK
  <2>4. QED
    BY <1>9, <2>1, <2>2, <2>3 DEF Abort, TypeOK
<1>10. CASE FinishTick
  <2>1. item \in PendingItem /\ item.oid \in Objects
    BY <1>10 DEF FinishTick, TypeOK, PendingItem
  <2>2. cache' \in [Objects -> Nat \cup {None}] /\ unremoved' \in SUBSET Objects
    BY <1>10, <2>1 DEF FinishTick, TypeOK
  <2>3. faults' \in 0 .. MaxFaults
    BY <1>10, SnapshotAssumption DEF FinishTick, Fault, TypeOK
  <2>4. QED
    BY <1>10, <2>2, <2>3 DEF FinishTick, Answered, TypeOK, tableVars
<1>11. ASSUME NEW o \in Objects, Expire(o) PROVE TypeOK'
  BY <1>11, SnapshotAssumption DEF Expire, Fault, TypeOK, tableVars
<1>12. CASE UNCHANGED vars
  BY <1>12 DEF vars, queueVars, tableVars, TypeOK
<1>13. QED
  BY <1>0, <1>1, <1>2, <1>3, <1>4, <1>5, <1>6, <1>7, <1>8, <1>9, <1>10, <1>11, <1>12
     DEF Next, RunnerStep, HandleTick

-----------------------------------------------------------------------------
(* Every step keeps the inductive invariant.                               *)
LEMMA InvStep == SnapshotInv /\ [Next]_vars => SnapshotInv'
<1> SUFFICES ASSUME SnapshotInv, [Next]_vars PROVE SnapshotInv'
  OBVIOUS
<1> DEFINE Rest == Working /\ Settled /\ Current /\ NothingStranded
<1>0. /\ TypeOK /\ Working /\ Settled /\ Current /\ NothingStranded
      /\ TypeOK'
      /\ Runner \in Writers /\ \A w \in Requests : w \in Writers /\ w # Runner
  BY TypeStep, SnapshotAssumption DEF SnapshotInv, Writers
<1> SUFFICES Rest'
  BY <1>0 DEF SnapshotInv
<1>a. ASSUME UNCHANGED <<pending, item, cache, queued, wrote>>, tx'[Runner] = tx[Runner]
      PROVE  Rest'
  BY <1>0, <1>a DEF Working, Settled, Current, NothingStranded
<1>1. ASSUME NEW o \in Objects, QueueSnapshot(o) PROVE Rest'
  BY <1>1, <1>a DEF QueueSnapshot, tableVars
<1>2. CASE SendTick
  BY <1>2, <1>a DEF SendTick, tableVars
<1>3. CASE HandleInsert
  <2> DEFINE o == Head(commands).oid
             d == Head(commands).data
             p == [oid |-> o, seq |-> idGen]
  <2>1. o \in Objects /\ d \in Nat /\ p.oid = o
    BY <1>0, <1>3, InsertCommand DEF HandleInsert
  <2>2. /\ item = None /\ pending' = pending \cup {p}
        /\ \/ /\ cache' = [cache EXCEPT ![o] = d]
              /\ queued' = [queued EXCEPT ![o] = IF d \in Undecodable THEN 0 ELSE d]
           \/ UNCHANGED <<cache, queued>>
        /\ UNCHANGED <<item, tx, wrote>>
    BY <1>3 DEF HandleInsert, NextCommand, tableVars
  <2> HIDE DEF o, d, p
  <2>3. tx[Runner] = Idle
    BY <1>0, <2>2 DEF Working
  <2>4. Working' /\ Settled'
    BY <2>2, <2>3 DEF Working, Settled
  <2>5. CASE UNCHANGED <<cache, queued>>
    BY <1>0, <2>2, <2>4, <2>5 DEF Current, NothingStranded
  <2>6. CASE /\ cache' = [cache EXCEPT ![o] = d]
             /\ queued' = [queued EXCEPT ![o] = IF d \in Undecodable THEN 0 ELSE d]
    <3>1. /\ \A q \in Objects \ {o} : cache'[q] = cache[q] /\ queued'[q] = queued[q]
          /\ cache'[o] = d
          /\ queued'[o] = 0 \/ (queued'[o] = d /\ d \notin Undecodable)
      BY <1>0, <2>1, <2>6 DEF TypeOK
    <3>2. Current'
      BY <1>0, <2>1, <3>1 DEF Current
    <3>3. p \in pending' /\ wrote'[o] \in Nat
      BY <1>0, <2>1, <2>2 DEF TypeOK
    <3>4. \A q \in Objects \ {o} : wrote'[q] < queued'[q] =>
            /\ cache'[q] = queued'[q]
            /\ \E i \in pending' : i.oid = q
      BY <1>0, <2>2, <3>1 DEF NothingStranded
    <3>5. wrote'[o] < queued'[o] => cache'[o] = queued'[o]
      BY <3>1, <3>3
    <3>6. NothingStranded'
      BY <2>1, <3>3, <3>4, <3>5 DEF NothingStranded
    <3>7. QED
      BY <2>4, <3>2, <3>6
  <2>7. QED
    BY <2>2, <2>5, <2>6
<1>4. CASE TickNothing
  <2>1. PICK p : /\ pending' = pending \ {p}
                 /\ p \in pending => ~Writable(p.oid)
    BY <1>4 DEF TickNothing, Foremost
  <2>2. item = None /\ UNCHANGED <<item, cache, queued, tx, wrote>>
    BY <1>4 DEF TickNothing, NextCommand, tableVars
  <2>3. Working' /\ Settled' /\ Current'
    BY <1>0, <2>2 DEF Working, Settled, Current
  <2>4. \A o \in Objects : wrote[o] < queued[o] => Writable(o)
    BY <1>0, SnapshotAssumption DEF NothingStranded, Current, Writable, TypeOK
  <2>5. NothingStranded'
    BY <1>0, <2>1, <2>2, <2>4 DEF NothingStranded
  <2>6. QED
    BY <2>3, <2>5
<1>5. CASE TickLater
  BY <1>5, <1>a DEF TickLater, tableVars
<1>6. CASE TickWrite
  <2>1. PICK p \in pending :
          /\ Writable(p.oid) /\ item' = p /\ pending' = pending \ {p}
          /\ Insert(Runner, p.oid, cache[p.oid])
    BY <1>6 DEF TickWrite, Foremost
  <2>2. p \in PendingItem /\ p.oid \in Objects /\ p # None
    BY <1>0, <2>1, SnapshotAssumption DEF TypeOK, PendingItem
  <2>3. /\ tx'[Runner] # Idle
        /\ tx'[Runner].oid = p.oid /\ tx'[Runner].row.data = cache[p.oid]
    BY <1>0, <2>1 DEF Insert, TypeOK, Idle
  <2>4. item = None /\ UNCHANGED <<cache, queued, wrote>>
    BY <1>6, <2>1 DEF TickWrite, NextCommand, Insert
  <2>5. cache[p.oid] \in Nat /\ cache[p.oid] # None
    BY <1>0, <2>1, <2>2, WritableFacts DEF Writable
  <2>6. cache[p.oid] >= queued[p.oid]
    <3>1. queued[p.oid] \in {0, cache[p.oid]}
      BY <1>0, <2>2, <2>5 DEF Current
    <3>2. QED
      BY <2>5, <3>1
  <2>7. Working' /\ Settled' /\ Current'
    BY <1>0, <2>1, <2>2, <2>3, <2>4, <2>6 DEF Working, Settled, Current
  <2>8. NothingStranded'
    BY <1>0, <2>1, <2>2, <2>4 DEF NothingStranded
  <2>9. QED
    BY <2>7, <2>8
<1>7. ASSUME NEW w \in Requests, NEW o \in Objects, CreateSnapshot(w, o) PROVE Rest'
  BY <1>0, <1>7, <1>a DEF CreateSnapshot, Insert, queueVars, TypeOK
<1>8. ASSUME NEW w \in Writers, Write(w) PROVE Rest'
  <2>1. tx[w] \in Transaction /\ tx[w] # Idle
    BY <1>0, <1>8, TxFacts DEF Write, StartDelete, FinishDelete, Commit
  <2>2. UNCHANGED <<pending, item, cache, queued>>
    BY <1>8 DEF Write, StartDelete, FinishDelete, Commit, queueVars
  <2>3. CASE w # Runner
    BY <1>0, <1>8, <2>2, <2>3, <1>a DEF Write, StartDelete, FinishDelete, Commit, TypeOK
  <2>4. CASE w = Runner /\ (StartDelete(w) \/ FinishDelete(w))
    <3>1. /\ tx'[Runner].oid = tx[Runner].oid /\ tx'[Runner].row = tx[Runner].row
          /\ UNCHANGED wrote
      BY <1>0, <2>1, <2>4 DEF StartDelete, FinishDelete, TypeOK, Transaction
    <3>2. tx'[Runner] # Idle
      BY <1>0, <2>1, <2>4 DEF StartDelete, FinishDelete, TypeOK, Transaction, Idle
    <3>3. QED
      BY <1>0, <2>1, <2>2, <2>4, <3>1, <3>2
         DEF Working, Settled, Current, NothingStranded
  <2>5. CASE w = Runner /\ Commit(w)
    <3>1. /\ item # None /\ item.oid = tx[Runner].oid
          /\ tx[Runner].row.data >= queued[item.oid]
      BY <1>0, <2>1, <2>5 DEF Working
    <3>2. /\ tx'[Runner] = Idle
          /\ wrote' = [wrote EXCEPT ![item.oid] = tx[Runner].row.data]
      BY <1>0, <2>5, <3>1 DEF Commit, TypeOK
    <3>3. item.oid \in Objects /\ tx[Runner].row.data \in Nat
      BY <2>1, <2>5, <3>1 DEF Transaction, Row
    <3>4. wrote'[item.oid] = tx[Runner].row.data
          /\ \A o \in Objects \ {item.oid} : wrote'[o] = wrote[o]
      BY <1>0, <3>2, <3>3 DEF TypeOK
    <3>5. Working' /\ Settled' /\ Current'
      BY <1>0, <2>2, <3>1, <3>2, <3>4 DEF Working, Settled, Current
    <3>6. NothingStranded'
      <4>1. ~(wrote'[item.oid] < queued'[item.oid])
        <5>1. queued[item.oid] \in Nat
          BY <1>0, <3>3 DEF TypeOK
        <5>2. QED
          BY <2>2, <3>1, <3>3, <3>4, <5>1
      <4>2. QED
        BY <1>0, <2>2, <3>4, <4>1 DEF NothingStranded
    <3>7. QED
      BY <3>5, <3>6
  <2>6. QED
    BY <1>8, <2>3, <2>4, <2>5 DEF Write
<1>9. ASSUME NEW w \in Writers, Abort(w) PROVE Rest'
  <2>1. CASE w # Runner
    BY <1>0, <1>9, <2>1, <1>a DEF Abort, TypeOK
  <2>2. CASE w = Runner
    <3>1. /\ item # None /\ item' = None /\ pending' = pending \cup {item}
          /\ tx'[Runner] = Idle /\ UNCHANGED <<cache, queued, wrote>>
      BY <1>0, <1>9, <2>2 DEF Abort, Working, TypeOK
    <3>2. Working' /\ Settled' /\ Current'
      BY <1>0, <3>1 DEF Working, Settled, Current
    <3>3. NothingStranded'
      BY <1>0, <3>1 DEF NothingStranded
    <3>4. QED
      BY <3>2, <3>3
  <2>3. QED
    BY <2>1, <2>2
<1>10. CASE FinishTick
  <2>1. /\ item # None /\ tx[Runner] = Idle /\ item' = None
        /\ UNCHANGED <<pending, queued, tx, wrote>>
        /\ cache' = [cache EXCEPT ![item.oid] = None] \/ UNCHANGED cache
    BY <1>10 DEF FinishTick, tableVars
  <2>2. wrote[item.oid] >= queued[item.oid] /\ item.oid \in Objects
    BY <1>0, <2>1 DEF Settled, TypeOK, PendingItem
  <2>3. Working' /\ Settled'
    BY <2>1 DEF Working, Settled
  <2>4. Current'
    BY <1>0, <2>1, <2>2 DEF Current, TypeOK
  <2>5. NothingStranded'
    <3>1. \A q \in Objects \ {item.oid} : cache'[q] = cache[q]
      BY <1>0, <2>1, <2>2 DEF TypeOK
    <3>2. wrote[item.oid] \in Nat /\ queued[item.oid] \in Nat
      BY <1>0, <2>2 DEF TypeOK
    <3>3. ~(wrote[item.oid] < queued[item.oid])
      BY <2>2, <3>2
    <3>4. QED
      BY <1>0, <2>1, <3>1, <3>3 DEF NothingStranded
  <2>6. QED
    BY <2>3, <2>4, <2>5
<1>11. ASSUME NEW o \in Objects, Expire(o) PROVE Rest'
  <2>1. /\ cache' = [cache EXCEPT ![o] = None] /\ queued' = [queued EXCEPT ![o] = 0]
        /\ UNCHANGED <<pending, item, tx, wrote>>
    BY <1>11 DEF Expire, tableVars
  <2>2. \A q \in Objects : queued'[q] = 0 \/ (queued'[q] = queued[q] /\ cache'[q] = cache[q])
    BY <1>0, <2>1 DEF TypeOK
  <2>3. item # None => item.oid \in Objects
    BY <1>0 DEF TypeOK, PendingItem
  <2>4. /\ \A q \in Objects : wrote[q] \in Nat
        /\ tx[Runner] # Idle => tx[Runner].row.data \in Nat
    BY <1>0, TxFacts DEF TypeOK, Transaction, Row
  <2>5. Working' /\ Settled'
    BY <1>0, <2>1, <2>2, <2>3, <2>4 DEF Working, Settled
  <2>6. Current'
    BY <1>0, <2>2 DEF Current
  <2>7. NothingStranded'
    BY <1>0, <2>1, <2>2, <2>4 DEF NothingStranded
  <2>8. QED
    BY <2>5, <2>6, <2>7
<1>12. CASE UNCHANGED vars
  BY <1>12, <1>a DEF vars, queueVars, tableVars
<1>13. QED
  BY <1>0, <1>1, <1>2, <1>3, <1>4, <1>5, <1>6, <1>7, <1>8, <1>9, <1>10, <1>11, <1>12
     DEF Next, RunnerStep, HandleTick

(* The inductive invariant holds in every reachable state.                 *)
LEMMA Invariance == Spec => []SnapshotInv
<1>1. Init => SnapshotInv
  BY TypeInit, SnapshotAssumption
     DEF SnapshotInv, Working, Settled, Current, NothingStranded, Init, Writers
<1>2. QED
  BY <1>1, InvStep, PTL DEF Spec

(* Every reachable state is well typed; in particular the command channel  *)
(* never holds more than its capacity, and what the runner pushes back is  *)
(* a pending item.                                                         *)
THEOREM TypeCorrect == Spec => []TypeOK
<1>1. SnapshotInv => TypeOK
  BY DEF SnapshotInv
<1>2. QED
  BY <1>1, Invariance, PTL

(* Whatever fails and however the runner, the ticks and the requests       *)
(* interleave, the data redis took is there, with an item that leads to    *)
(* it, until the runner has written it (process_next_batch).               *)
THEOREM NeverStranded == Spec => []NothingStranded
<1>1. SnapshotInv => NothingStranded
  BY DEF SnapshotInv
<1>2. QED
  BY <1>1, Invariance, PTL

-----------------------------------------------------------------------------
(* The table af_collab_snapshot.                                           *)

(* A transaction of w is under way.                                        *)
Open(w) == tx[w] # Idle

(* What a transaction does: it begins, it ends without effect, or it takes *)
(* its next statement.                                                     *)
Begins(w) == \E o \in Objects, d \in Nat : Insert(w, o, d)
Fails(w) == Open(w) /\ tx' = [tx EXCEPT ![w] = Idle] /\ UNCHANGED <<rows, sid>>

(* What a transaction that is under way is about.                          *)
LEMMA OpenTyped ==
  ASSUME TypeOK, NEW w \in Writers, Open(w)
  PROVE  /\ tx[w] \in Transaction
         /\ tx[w].oid \in Objects /\ tx[w].row \in Row /\ tx[w].victims \subseteq Row
         /\ tx[w].row.sid \in Nat /\ tx[w].row.data \in Nat
         /\ Visible(w) \subseteq Row
<1>1. tx[w] \in Transaction
  BY TxFacts DEF Open
<1>2. /\ tx[w].oid \in Objects /\ tx[w].row \in Row /\ tx[w].victims \subseteq Row
  BY <1>1 DEF Transaction
<1>3. tx[w].row.sid \in Nat /\ tx[w].row.data \in Nat
  BY <1>2 DEF Row
<1>4. rows[tx[w].oid] \subseteq Row
  BY <1>2 DEF TypeOK
<1>5. QED
  BY <1>1, <1>2, <1>3, <1>4 DEF Visible

(* What each of these steps does to the transactions.                      *)
LEMMA TxSteps ==
  ASSUME TypeOK, NEW w \in Writers
  PROVE  /\ \A o \in Objects, d \in Nat : Insert(w, o, d) =>
              /\ ~Open(w) /\ sid' = sid + 1 /\ rows' = rows
              /\ tx'[w] = [phase |-> "inserted", oid |-> o,
                           row |-> [sid |-> sid + 1, data |-> d], victims |-> {}]
              /\ \A v \in Writers \ {w} : tx'[v] = tx[v]
         /\ Fails(w) =>
              /\ Open(w) /\ sid' = sid /\ rows' = rows
              /\ tx'[w] = Idle /\ \A v \in Writers \ {w} : tx'[v] = tx[v]
         /\ StartDelete(w) =>
              /\ Open(w) /\ tx[w].phase = "inserted" /\ sid' = sid /\ rows' = rows
              /\ tx'[w].phase = "deleting"
              /\ tx'[w].oid = tx[w].oid /\ tx'[w].row = tx[w].row
              /\ tx'[w].victims = Visible(w) \ Newest(Visible(w))
              /\ \A v \in Writers \ {w} : tx'[v] = tx[v]
         /\ FinishDelete(w) =>
              /\ Open(w) /\ tx[w].phase = "deleting" /\ sid' = sid /\ rows' = rows
              /\ tx'[w].phase = "deleted"
              /\ tx'[w].oid = tx[w].oid /\ tx'[w].row = tx[w].row
              /\ tx'[w].victims = tx[w].victims \cap Visible(w)
              /\ \A v \in Writers \ {w} : tx'[v] = tx[v]
         /\ Commit(w) =>
              /\ Open(w) /\ tx[w].phase = "deleted" /\ sid' = sid
              /\ rows'[tx[w].oid] = Visible(w) \ tx[w].victims
              /\ \A o \in Objects \ {tx[w].oid} : rows'[o] = rows[o]
              /\ tx'[w] = Idle /\ \A v \in Writers \ {w} : tx'[v] = tx[v]
<1>1. tx \in [Writers -> Transaction \cup {Idle}] /\ rows \in [Objects -> SUBSET Row]
  BY DEF TypeOK
<1>2. ASSUME NEW o \in Objects, NEW d \in Nat, Insert(w, o, d)
      PROVE  /\ ~Open(w) /\ sid' = sid + 1 /\ rows' = rows
             /\ tx'[w] = [phase |-> "inserted", oid |-> o,
                          row |-> [sid |-> sid + 1, data |-> d], victims |-> {}]
             /\ \A v \in Writers \ {w} : tx'[v] = tx[v]
  BY <1>1, <1>2 DEF Insert, Open
<1>3. ASSUME Fails(w)
      PROVE  /\ Open(w) /\ sid' = sid /\ rows' = rows
             /\ tx'[w] = Idle /\ \A v \in Writers \ {w} : tx'[v] = tx[v]
  BY <1>1, <1>3 DEF Fails
<1>4. ASSUME StartDelete(w)
      PROVE  /\ Open(w) /\ tx[w].phase = "inserted" /\ sid' = sid /\ rows' = rows
             /\ tx'[w].phase = "deleting"
             /\ tx'[w].oid = tx[w].oid /\ tx'[w].row = tx[w].row
             /\ tx'[w].victims = Visible(w) \ Newest(Visible(w))
             /\ \A v \in Writers \ {w} : tx'[v] = tx[v]
  <2>1. Open(w) /\ tx[w] \in Transaction
    BY <1>4, TxFacts DEF StartDelete, Open
  <2>2. QED
    BY <1>1, <1>4, <2>1 DEF StartDelete, Transaction
<1>5. ASSUME FinishDelete(w)
      PROVE  /\ Open(w) /\ tx[w].phase = "deleting" /\ sid' = sid /\ rows' = rows
             /\ tx'[w].phase = "deleted"
             /\ tx'[w].oid = tx[w].oid /\ tx'[w].row = tx[w].row
             /\ tx'[w].victims = tx[w].victims \cap Visible(w)
             /\ \A v \in Writers \ {w} : tx'[v] = tx[v]
  <2>1. Open(w) /\ tx[w] \in Transaction
    BY <1>5, TxFacts DEF FinishDelete, Open
  <2>2. QED
    BY <1>1, <1>5, <2>1 DEF FinishDelete, Transaction
<1>6. ASSUME Commit(w)
      PROVE  /\ Open(w) /\ tx[w].phase = "deleted" /\ sid' = sid
             /\ rows'[tx[w].oid] = Visible(w) \ tx[w].victims
             /\ \A o \in Objects \ {tx[w].oid} : rows'[o] = rows[o]
             /\ tx'[w] = Idle /\ \A v \in Writers \ {w} : tx'[v] = tx[v]
  <2>1. Open(w) /\ tx[w].oid \in Objects
    BY <1>6, TxFacts, OpenTyped DEF Commit, Open
  <2>2. QED
    BY <1>1, <1>6, <2>1 DEF Commit
<1>7. QED
  BY <1>2, <1>3, <1>4, <1>5, <1>6

(* Every step does one of these to one transaction, or leaves the table.   *)
LEMMA TableSteps ==
  ASSUME SnapshotInv, [Next]_vars
  PROVE  \/ UNCHANGED <<rows, tx, sid>>
         \/ \E w \in Writers : Begins(w) \/ Fails(w) \/ Write(w)
<1>0. TypeOK /\ Working /\ Runner \in Writers /\ \A w \in Requests : w \in Writers
  BY DEF SnapshotInv, Writers
<1>1. CASE TickWrite
  <2>1. PICK p \in pending : Writable(p.oid) /\ Insert(Runner, p.oid, cache[p.oid])
    BY <1>1 DEF TickWrite, Foremost
  <2>2. p.oid \in Objects
    BY <1>0, <2>1 DEF TypeOK, PendingItem
  <2>3. cache[p.oid] \in Nat
    BY <1>0, <2>1, <2>2, WritableFacts
  <2>4. QED
    BY <1>0, <2>1, <2>2, <2>3 DEF Begins
<1>2. ASSUME NEW w \in Requests, NEW o \in Objects, CreateSnapshot(w, o)
      PROVE  Begins(w)
  <2>1. version + 1 \in Nat
    BY <1>0, SnapshotAssumption DEF TypeOK
  <2>2. QED
    BY <1>2, <2>1 DEF CreateSnapshot, Begins
<1>3. ASSUME NEW w \in Writers, Abort(w) PROVE Fails(w)
  BY <1>3 DEF Abort, Fails, Open
<1>4. ASSUME NEW o \in Objects, QueueSnapshot(o) \/ Expire(o) PROVE UNCHANGED <<rows, tx, sid>>
  BY <1>4 DEF QueueSnapshot, Expire, tableVars
<1>5. CASE SendTick \/ HandleInsert \/ TickNothing \/ TickLater \/ FinishTick
  BY <1>5 DEF SendTick, HandleInsert, TickNothing, TickLater, FinishTick, tableVars
<1>6. CASE UNCHANGED vars
  BY <1>6 DEF vars, tableVars
<1>7. QED
  BY <1>0, <1>1, <1>2, <1>3, <1>4, <1>5, <1>6 DEF Next, RunnerStep, HandleTick

-----------------------------------------------------------------------------
(* No two rows have one sid.                                               *)

Numbered(o) ==
  /\ IsFiniteSet(rows[o])
  /\ \A r \in rows[o] : r.sid <= sid
  /\ \A r, q \in rows[o] : r.sid = q.sid => r = q
TxNumbered(w) ==
  Open(w) =>
    /\ tx[w].row.sid <= sid
    /\ \A o \in Objects : \A r \in rows[o] : r.sid # tx[w].row.sid
    /\ \A v \in Writers \ {w} : Open(v) => tx[v].row.sid # tx[w].row.sid
    /\ \A r \in tx[w].victims :
         r.sid <= sid /\ \A v \in Writers \ {w} : Open(v) => r.sid # tx[v].row.sid
TableInv == (\A o \in Objects : Numbered(o)) /\ (\A w \in Writers : TxNumbered(w))

(* A transaction that ends puts its row into the table, or does not.       *)
LEMMA EndNumbered ==
  ASSUME TypeOK, TableInv, NEW w \in Writers, Open(w), tx'[w] = Idle,
         \A v \in Writers \ {w} : tx'[v] = tx[v], sid' = sid,
         \A o \in Objects : rows'[o] \subseteq rows[o] \cup {tx[w].row}
  PROVE  TableInv'
<1>1. ASSUME NEW o \in Objects PROVE Numbered(o)'
  <2>1. IsFiniteSet(rows[o]) /\ IsFiniteSet(rows[o] \cup {tx[w].row})
    BY FS_AddElement DEF TableInv, Numbered
  <2>2. rows'[o] \subseteq rows[o] \cup {tx[w].row}
    OBVIOUS
  <2>3. IsFiniteSet(rows'[o])
    BY <2>1, <2>2, FS_Subset
  <2>4. QED
    BY <2>2, <2>3 DEF TableInv, Numbered, TxNumbered
<1>2. ASSUME NEW v \in Writers PROVE TxNumbered(v)'
  <2>1. CASE v = w
    BY <2>1 DEF TxNumbered, Open
  <2>2. CASE v # w
    BY <2>2 DEF TableInv, TxNumbered, Open
  <2>3. QED
    BY <2>1, <2>2
<1>3. QED
  BY <1>1, <1>2 DEF TableInv

(* Every step keeps the numbers apart.                                     *)
LEMMA TableInvStep == SnapshotInv /\ TableInv /\ [Next]_vars => TableInv'
<1> SUFFICES ASSUME SnapshotInv, TableInv, [Next]_vars PROVE TableInv'
  OBVIOUS
<1>0. TypeOK /\ sid \in Nat
  BY DEF SnapshotInv, TypeOK
<1>1. CASE UNCHANGED <<rows, tx, sid>>
  BY <1>1 DEF TableInv, Numbered, TxNumbered, Open
<1>2. ASSUME NEW w \in Writers, NEW o \in Objects, NEW d \in Nat, Insert(w, o, d)
      PROVE  TableInv'
  <2>1. /\ ~Open(w) /\ sid' = sid + 1 /\ rows' = rows
        /\ tx'[w].row.sid = sid + 1 /\ tx'[w].victims = {}
        /\ \A v \in Writers \ {w} : tx'[v] = tx[v]
    <3>1. /\ ~Open(w) /\ sid' = sid + 1 /\ rows' = rows
          /\ tx'[w] = [phase |-> "inserted", oid |-> o,
                       row |-> [sid |-> sid + 1, data |-> d], victims |-> {}]
          /\ \A v \in Writers \ {w} : tx'[v] = tx[v]
      BY <1>0, <1>2, TxSteps
    <3>2. QED
      BY <3>1
  <2>2. \A p \in Objects : \A r \in rows[p] : r.sid \in Nat
    BY <1>0 DEF TypeOK, Row
  <2>3. \A v \in Writers : Open(v) => tx[v].row.sid \in Nat
    BY <1>0, OpenTyped
  <2>4. ASSUME NEW p \in Objects PROVE Numbered(p)'
    <3>1. \A r \in rows[p] : r.sid <= sid + 1
      BY <1>0, <2>2 DEF TableInv, Numbered
    <3>2. QED
      BY <2>1, <3>1 DEF TableInv, Numbered
  <2>5. ASSUME NEW v \in Writers PROVE TxNumbered(v)'
    <3>1. CASE v = w
      <4>1. \A p \in Objects : \A r \in rows[p] : r.sid # sid + 1
        BY <1>0, <2>2 DEF TableInv, Numbered
      <4>2. \A u \in Writers \ {w} : Open(u) => tx[u].row.sid # sid + 1
        BY <1>0, <2>3 DEF TableInv, TxNumbered
      <4>3. sid + 1 <= sid + 1
        BY <1>0
      <4>4. QED
        BY <2>1, <3>1, <4>1, <4>2, <4>3 DEF TxNumbered, Open
    <3>2. CASE v # w /\ Open(v)
      <4>1. tx[v].row.sid <= sid + 1 /\ tx[v].row.sid # sid + 1
        BY <1>0, <2>3, <3>2 DEF TableInv, TxNumbered
      <4>2. \A r \in tx[v].victims : r.sid <= sid + 1 /\ r.sid # sid + 1
        <5>1. \A r \in tx[v].victims : r.sid \in Nat
          BY <1>0, <3>2, OpenTyped DEF Row
        <5>2. QED
          BY <1>0, <3>2, <5>1 DEF TableInv, TxNumbered
      <4>3. QED
        BY <2>1, <3>2, <4>1, <4>2 DEF TableInv, TxNumbered, Open
    <3>3. CASE v # w /\ ~Open(v)
      BY <2>1, <3>3 DEF TxNumbered, Open
    <3>4. QED
      BY <3>1, <3>2, <3>3
  <2>6. QED
    BY <2>4, <2>5 DEF TableInv
<1>3. ASSUME NEW w \in Writers, Fails(w) PROVE TableInv'
  BY <1>0, <1>3, TxSteps, EndNumbered
<1>4. ASSUME NEW w \in Writers, StartDelete(w) \/ FinishDelete(w) PROVE TableInv'
  <2>1. /\ Open(w) /\ rows' = rows /\ sid' = sid /\ tx'[w].row = tx[w].row
        /\ \A v \in Writers \ {w} : tx'[v] = tx[v]
    BY <1>0, <1>4, TxSteps
  <2>2. \A v \in Writers : tx'[v] # Idle => Open(v) /\ tx'[v].row = tx[v].row
    BY <2>1 DEF Open
  <2>3. \A o \in Objects : Numbered(o)'
    BY <2>1 DEF TableInv, Numbered
  <2>4. \A r \in tx'[w].victims : r \in tx[w].victims \/ r \in Visible(w)
    BY <1>0, <1>4, TxSteps
  <2>5. tx[w].oid \in Objects
    BY <1>0, <2>1, OpenTyped
  <2>6. \A r \in tx'[w].victims :
          r.sid <= sid /\ \A v \in Writers \ {w} : Open(v) => r.sid # tx[v].row.sid
    BY <2>1, <2>4, <2>5 DEF TableInv, Numbered, TxNumbered, Visible
  <2>7. ASSUME NEW v \in Writers PROVE TxNumbered(v)'
    <3>1. CASE v = w
      BY <2>1, <2>2, <2>6, <3>1 DEF TableInv, TxNumbered, Open
    <3>2. CASE v # w
      BY <2>1, <2>2, <3>2 DEF TableInv, TxNumbered, Open
    <3>3. QED
      BY <3>1, <3>2
  <2>8. QED
    BY <2>3, <2>7 DEF TableInv
<1>5. ASSUME NEW w \in Writers, Commit(w) PROVE TableInv'
  <2>1. /\ Open(w) /\ sid' = sid /\ tx'[w] = Idle
        /\ \A v \in Writers \ {w} : tx'[v] = tx[v]
        /\ rows'[tx[w].oid] = Visible(w) \ tx[w].victims
        /\ \A o \in Objects \ {tx[w].oid} : rows'[o] = rows[o]
    BY <1>0, <1>5, TxSteps
  <2>2. \A o \in Objects : rows'[o] \subseteq rows[o] \cup {tx[w].row}
    BY <2>1 DEF Visible
  <2>3. QED
    BY <1>0, <2>1, <2>2, EndNumbered
<1>6. QED
  BY <1>1, <1>2, <1>3, <1>4, <1>5, TableSteps DEF Begins, Write

(* The table starts without rows.                                          *)
LEMMA TableInvHolds == Spec => []TableInv
<1>1. Init => TableInv
  BY FS_EmptySet DEF Init, TableInv, Numbered, TxNumbered, Open
<1>2. QED
  BY <1>1, Invariance, TableInvStep, PTL DEF Spec

-----------------------------------------------------------------------------
(* The DELETE leaves Limit rows that are newer than any it takes.           *)

(* A set of natural numbers that is not empty has a least element ...      *)
LEMMA NatMin ==
  ASSUME NEW T \in SUBSET Nat, T # {}
  PROVE  \E x \in T : \A y \in T : x <= y
<1> DEFINE L == OpToRel(<, Nat)
<1>1. IsWellFoundedOn(L, Nat)
  BY NatLessThanWellFounded
<1>2. \A x, y \in Nat : y < x => <<y, x>> \in L
  BY DEF OpToRel
<1> HIDE DEF L
<1>3. PICK x \in T : \A y \in T : ~ (<<y, x>> \in L)
  BY <1>1, WFMin
<1>4. \A y \in T : ~(y < x) /\ y \in Nat /\ x \in Nat
  BY <1>2, <1>3
<1>5. QED
  BY <1>4

(* ... and a greatest one if it is bounded.                                *)
LEMMA NatMax ==
  ASSUME NEW T \in SUBSET Nat, T # {}, NEW n \in Nat, \A y \in T : y <= n
  PROVE  \E x \in T : \A y \in T : y <= x
<1> DEFINE U == {k \in 0 .. n : \E y \in T : y = n - k}
<1>1. U \in SUBSET Nat /\ (\A y \in T : n - y \in U) /\ (\A k \in U : n - k \in T)
  OBVIOUS
<1> HIDE DEF U
<1>2. PICK k \in U : \A j \in U : k <= j
  BY <1>1, NatMin
<1>3. n - k \in T /\ k \in Nat /\ \A y \in T : y \in Nat /\ k <= n - y
  BY <1>1, <1>2
<1>4. QED
  BY <1>3

Newer(S, r) == {q \in S : q.sid > r.sid}

(* The rows that w would delete have Limit newer ones.                     *)
Spared(w) ==
  Open(w) => \A r \in tx[w].victims \cap Visible(w) : Cardinality(Newer(Visible(w), r)) >= Limit
LimitInv == \A w \in Writers : Spared(w)

(* What a transaction sees is finite, and among the rows it would delete   *)
(* there is a newest one.                                                  *)
LEMMA VisibleFacts ==
  ASSUME TypeOK, TableInv, NEW w \in Writers, Open(w)
  PROVE  /\ IsFiniteSet(Visible(w)) /\ Visible(w) \subseteq Row
         /\ \A r \in Visible(w) : r.sid \in Nat /\ r.sid <= sid
         /\ \A r, q \in Visible(w) : r.sid = q.sid => r = q
<1>1. tx[w].oid \in Objects /\ Visible(w) \subseteq Row
  BY OpenTyped
<1>2. IsFiniteSet(Visible(w))
  BY <1>1, FS_AddElement DEF Visible, TableInv, Numbered
<1>3. \A r \in Visible(w) : r.sid \in Nat /\ r.sid <= sid
  BY <1>1 DEF Row, Visible, TableInv, Numbered, TxNumbered
<1>4. \A r, q \in Visible(w) : r.sid = q.sid => r = q
  BY <1>1 DEF Visible, TableInv, Numbered, TxNumbered
<1>5. QED
  BY <1>1, <1>2, <1>3, <1>4

(* The newest of the rows that a transaction would delete.                 *)
LEMMA NewestVictim ==
  ASSUME TypeOK, TableInv, NEW w \in Writers, Open(w), tx[w].victims \cap Visible(w) # {}
  PROVE  \E r \in tx[w].victims \cap Visible(w) :
           \A q \in tx[w].victims \cap Visible(w) : q.sid <= r.sid
<1> DEFINE V == tx[w].victims \cap Visible(w)
           T == {r.sid : r \in V}
<1>1. V # {} /\ \A r \in V : r.sid \in Nat /\ r.sid <= sid
  BY VisibleFacts
<1>2. T \in SUBSET Nat /\ T # {} /\ \A i \in T : i <= sid
  BY <1>1
<1>3. sid \in Nat
  BY DEF TypeOK
<1>4. PICK i \in T : \A j \in T : j <= i
  <2> HIDE DEF T
  <2>1. QED
    BY <1>2, <1>3, NatMax
<1>5. QED
  BY <1>4

(* When a DELETE has been committed, either it took no row or there are    *)
(* Limit rows that are newer than all it took.                             *)
LEMMA DeleteSpares ==
  ASSUME TypeOK, TableInv, LimitInv, NEW w \in Writers, Open(w),
         NEW r \in tx[w].victims \cap Visible(w)
  PROVE  \E m \in tx[w].victims \cap Visible(w) :
           /\ r.sid <= m.sid
           /\ Newer(Visible(w), m) \subseteq Visible(w) \ tx[w].victims
           /\ Cardinality(Newer(Visible(w), m)) >= Limit
<1>1. PICK m \in tx[w].victims \cap Visible(w) :
        \A q \in tx[w].victims \cap Visible(w) : q.sid <= m.sid
  BY NewestVictim
<1>2. \A q \in Visible(w) : q.sid \in Nat
  BY VisibleFacts
<1>3. \A q \in Newer(Visible(w), m) : q \in Visible(w) /\ ~(q.sid <= m.sid)
  BY <1>2 DEF Newer
<1>4. Newer(Visible(w), m) \subseteq Visible(w) \ tx[w].victims
  BY <1>1, <1>3
<1>5. QED
  BY <1>1, <1>4 DEF LimitInv, Spared

(* Where the rows that a transaction sees stay, its victims stay spared.   *)
LEMMA SparedKept ==
  ASSUME TypeOK, NEW w \in Writers, Spared(w),
         tx'[w] # Idle => /\ Open(w) /\ tx'[w].victims \subseteq tx[w].victims
                          /\ Visible(w)' = Visible(w)
  PROVE  Spared(w)'
<1>1. ASSUME tx'[w] # Idle, NEW r \in tx'[w].victims \cap Visible(w)'
      PROVE  Cardinality(Newer(Visible(w)', r)) >= Limit
  BY <1>1 DEF Spared
<1>2. QED
  BY <1>1 DEF Spared, Open, Newer, Visible

(* A commit takes from another transaction's view only rows that are older *)
(* than Limit others.                                                      *)
LEMMA CommitSpares ==
  ASSUME TypeOK, TypeOK', TableInv, TableInv', LimitInv, NEW w \in Writers, Commit(w),
         NEW v \in Writers \ {w}
  PROVE  Spared(v)'
<1>1. /\ Open(w) /\ rows'[tx[w].oid] = Visible(w) \ tx[w].victims
      /\ \A o \in Objects \ {tx[w].oid} : rows'[o] = rows[o]
      /\ tx'[v] = tx[v]
  BY TxSteps
<1>2. SUFFICES ASSUME Open(v) PROVE Spared(v)'
  BY <1>1 DEF Spared, Open
<1>3. CASE tx[v].oid # tx[w].oid
  <2>1. Visible(v)' = Visible(v)
    BY <1>1, <1>2, <1>3, OpenTyped DEF Visible
  <2>2. QED
    BY <1>1, <1>2, <2>1, SparedKept DEF LimitInv
<1>4. CASE tx[v].oid = tx[w].oid
  <2>1. Visible(v)' = (Visible(w) \ tx[w].victims) \cup {tx[v].row}
    BY <1>1, <1>4 DEF Visible
  <2>2. Visible(v) \subseteq Visible(w) \cup {tx[v].row}
    BY <1>4 DEF Visible
  <2>3. Open(v)'
    BY <1>1, <1>2 DEF Open
  <2>4. IsFiniteSet(Visible(v)') /\ \A q \in Visible(v)' : q.sid \in Nat
    <3>1. /\ IsFiniteSet(Visible(w)) /\ \A q \in Visible(w) : q.sid \in Nat
      BY <1>1, VisibleFacts
    <3>2. IsFiniteSet(Visible(w) \ tx[w].victims)
      BY <3>1, FS_Subset
    <3>3. tx[v].row.sid \in Nat
      BY <1>2, OpenTyped
    <3>4. QED
      BY <2>1, <3>1, <3>2, <3>3, FS_AddElement
  <2>5. ASSUME NEW r \in tx[v].victims \cap Visible(v)'
        PROVE  Cardinality(Newer(Visible(v)', r)) >= Limit
    <3>1. r \in Visible(v) /\ r.sid \in Nat
      <4>1. r \in Visible(w) \/ r = tx[v].row
        BY <2>1
      <4>2. r # tx[w].row
        BY <1>1, <1>2 DEF TableInv, TxNumbered
      <4>3. r \in Visible(v)
        BY <1>4, <4>1, <4>2 DEF Visible
      <4>4. QED
        BY <2>4, <4>3
    <3>2. Cardinality(Newer(Visible(v), r)) >= Limit
      BY <1>2, <3>1 DEF LimitInv, Spared
    <3>3. \A G : G \subseteq Newer(Visible(v)', r) /\ Cardinality(G) >= Limit
                   => Cardinality(Newer(Visible(v)', r)) >= Limit
      <4>1. IsFiniteSet(Newer(Visible(v)', r))
        BY <2>4, FS_Subset DEF Newer
      <4>2. ASSUME NEW G \in SUBSET Newer(Visible(v)', r)
            PROVE  /\ Cardinality(G) <= Cardinality(Newer(Visible(v)', r))
                   /\ Cardinality(G) \in Nat /\ Cardinality(Newer(Visible(v)', r)) \in Nat
        BY <4>1, FS_Subset, FS_CardinalityType
      <4>3. QED
        BY <4>2, SnapshotAssumption
    <3>4. CASE \E q \in Newer(Visible(v), r) : q \in tx[w].victims /\ q # tx[v].row
      <4>1. PICK q \in Newer(Visible(v), r) : q \in tx[w].victims /\ q # tx[v].row
        BY <3>4
      <4>2. q \in tx[w].victims \cap Visible(w) /\ q.sid > r.sid /\ q.sid \in Nat
        BY <1>1, <2>2, <4>1, VisibleFacts DEF Newer
      <4>3. PICK m \in tx[w].victims \cap Visible(w) :
              /\ q.sid <= m.sid
              /\ Newer(Visible(w), m) \subseteq Visible(w) \ tx[w].victims
              /\ Cardinality(Newer(Visible(w), m)) >= Limit
        BY <1>1, <4>2, DeleteSpares
      <4>4. \A x \in Visible(w) : x.sid \in Nat
        BY <1>1, VisibleFacts
      <4>5. \A x \in Newer(Visible(w), m) : x \in Visible(v)' /\ x.sid > r.sid
        BY <2>1, <3>1, <4>2, <4>3, <4>4 DEF Newer
      <4>6. Newer(Visible(w), m) \subseteq Newer(Visible(v)', r)
        BY <4>5 DEF Newer
      <4>7. QED
        BY <3>3, <4>3, <4>6
    <3>5. CASE \A q \in Newer(Visible(v), r) : q \notin tx[w].victims \/ q = tx[v].row
      <4>1. Newer(Visible(v), r) \subseteq Newer(Visible(v)', r)
        BY <2>1, <2>2, <3>5 DEF Newer
      <4>2. QED
        BY <3>2, <3>3, <4>1
    <3>6. QED
      BY <3>4, <3>5
  <2>6. QED
    BY <1>1, <2>5 DEF Spared, Open, Newer, Visible
<1>5. QED
  BY <1>3, <1>4

(* Every step spares Limit rows.                                           *)
LEMMA LimitInvStep == SnapshotInv /\ SnapshotInv' /\ TableInv /\ TableInv' /\ LimitInv /\ [Next]_vars => LimitInv'
<1> SUFFICES ASSUME SnapshotInv, SnapshotInv', TableInv, TableInv', LimitInv, [Next]_vars,
                    NEW v \in Writers
             PROVE  Spared(v)'
  BY DEF LimitInv
<1>0. TypeOK /\ TypeOK' /\ Spared(v)
  BY DEF SnapshotInv, LimitInv
<1>1. CASE UNCHANGED <<rows, tx, sid>>
  BY <1>0, <1>1, SparedKept DEF Open, Visible
<1>2. ASSUME NEW w \in Writers, rows' = rows, tx'[v] = tx[v] PROVE Spared(v)'
  BY <1>0, <1>2, SparedKept DEF Open, Visible
<1>3. ASSUME tx'[v] # Idle => tx'[v].victims = {} PROVE Spared(v)'
  BY <1>3 DEF Spared, Open
<1>4. ASSUME NEW w \in Writers, Begins(w) \/ Fails(w) PROVE Spared(v)'
  <2>1. CASE v # w
    BY <1>0, <1>2, <1>4, <2>1, TxSteps DEF Begins
  <2>2. CASE v = w /\ Fails(w)
    BY <1>0, <1>3, <2>2, TxSteps
  <2>3. CASE v = w /\ Begins(w)
    <3>1. PICK o \in Objects, d \in Nat : Insert(w, o, d)
      BY <2>3 DEF Begins
    <3>2. tx'[w] = [phase |-> "inserted", oid |-> o,
                    row |-> [sid |-> sid + 1, data |-> d], victims |-> {}]
      BY <1>0, <3>1, TxSteps
    <3>3. QED
      BY <1>3, <2>3, <3>2
  <2>4. QED
    BY <1>4, <2>1, <2>2, <2>3
<1>5. ASSUME NEW w \in Writers, StartDelete(w) PROVE Spared(v)'
  <2>1. CASE v # w
    BY <1>0, <1>2, <1>5, <2>1, TxSteps
  <2>2. CASE v = w
    <3>1. /\ Open(v) /\ rows' = rows /\ tx'[v].oid = tx[v].oid /\ tx'[v].row = tx[v].row
          /\ tx'[v].victims = Visible(v) \ Newest(Visible(v))
      BY <1>0, <1>5, <2>2, TxSteps
    <3>2. Visible(v)' = Visible(v)
      BY <3>1 DEF Visible
    <3>3. ASSUME NEW r \in Visible(v) \ Newest(Visible(v))
          PROVE  Cardinality(Newer(Visible(v), r)) >= Limit
      <4>1. ~(Cardinality(Newer(Visible(v), r)) < Limit)
        BY DEF Newest, Newer
      <4>2. IsFiniteSet(Newer(Visible(v), r))
        BY <1>0, <3>1, VisibleFacts, FS_Subset DEF Newer
      <4>3. QED
        BY <4>1, <4>2, FS_CardinalityType, SnapshotAssumption
    <3>4. QED
      BY <3>1, <3>2, <3>3 DEF Spared, Open, Newer, Visible
  <2>3. QED
    BY <2>1, <2>2
<1>6. ASSUME NEW w \in Writers, FinishDelete(w) PROVE Spared(v)'
  <2>1. CASE v # w
    BY <1>0, <1>2, <1>6, <2>1, TxSteps
  <2>2. CASE v = w
    <3>1. /\ Open(v) /\ rows' = rows /\ tx'[v].oid = tx[v].oid /\ tx'[v].row = tx[v].row
          /\ tx'[v].victims = tx[v].victims \cap Visible(v)
      BY <1>0, <1>6, <2>2, TxSteps
    <3>2. Visible(v)' = Visible(v)
      BY <3>1 DEF Visible
    <3>3. QED
      BY <1>0, <3>1, <3>2, SparedKept
  <2>3. QED
    BY <2>1, <2>2
<1>7. ASSUME NEW w \in Writers, Commit(w) PROVE Spared(v)'
  <2>1. CASE v # w
    BY <1>0, <1>7, <2>1, CommitSpares
  <2>2. CASE v = w
    BY <1>0, <1>7, <2>2, TxSteps DEF Spared, Open
  <2>3. QED
    BY <2>1, <2>2
<1>8. QED
  BY <1>1, <1>4, <1>5, <1>6, <1>7, TableSteps DEF Write

(* The rows that a DELETE picked are always spared.                        *)
LEMMA LimitInvHolds == Spec => []LimitInv
<1>1. Init => LimitInv
  BY DEF Init, LimitInv, Spared, Open
<1>2. QED
  BY <1>1, Invariance, TableInvHolds, LimitInvStep, PTL DEF Spec

(* However many transactions overlap, none deletes too much: an object     *)
(* that has Limit snapshots does not get fewer, and one that has not keeps *)
(* all it has (create_snapshot_and_maintain_limit).                        *)
THEOREM DeletesLeaveEnough == Spec => KeepsEnough
<1> DEFINE Keeps(o) == Cardinality(rows'[o]) >= Limit \/ rows[o] \subseteq rows'[o]
<1>1. ASSUME SnapshotInv, TableInv, TableInv', LimitInv, [Next]_vars, NEW o \in Objects
      PROVE  Keeps(o)
  <2>0. TypeOK
    BY <1>1 DEF SnapshotInv
  <2>1. CASE rows'[o] = rows[o]
    BY <2>1
  <2>2. ASSUME NEW w \in Writers, Commit(w), o = tx[w].oid PROVE Keeps(o)
    <3>1. Open(w) /\ rows'[o] = Visible(w) \ tx[w].victims
      BY <2>0, <2>2, TxSteps
    <3>2. CASE tx[w].victims \cap Visible(w) = {}
      BY <2>2, <3>1, <3>2 DEF Visible
    <3>3. ASSUME NEW r \in tx[w].victims \cap Visible(w) PROVE Keeps(o)
      <4>1. PICK m \in tx[w].victims \cap Visible(w) :
              /\ Newer(Visible(w), m) \subseteq Visible(w) \ tx[w].victims
              /\ Cardinality(Newer(Visible(w), m)) >= Limit
        BY <1>1, <2>0, <3>1, DeleteSpares
      <4>2. IsFiniteSet(rows'[o])
        BY <1>1 DEF TableInv, Numbered
      <4>3. /\ Cardinality(Newer(Visible(w), m)) <= Cardinality(rows'[o])
            /\ Cardinality(Newer(Visible(w), m)) \in Nat /\ Cardinality(rows'[o]) \in Nat
        BY <3>1, <4>1, <4>2, FS_Subset, FS_CardinalityType
      <4>4. QED
        BY <4>1, <4>3, SnapshotAssumption
    <3>4. QED
      BY <3>2, <3>3
  <2>3. \/ rows'[o] = rows[o]
        \/ \E w \in Writers : Commit(w) /\ o = tx[w].oid
    BY <1>1, <2>0, TableSteps, TxSteps DEF Begins, Write
  <2>4. QED
    BY <2>1, <2>2, <2>3
<1>2. SnapshotInv /\ TableInv /\ TableInv' /\ LimitInv /\ [Next]_vars
        => [\A o \in Objects :
              \/ Cardinality(rows'[o]) >= Limit
              \/ rows[o] \subseteq rows'[o]]_vars
  BY <1>1
<1>3. QED
  BY <1>2, Invariance, TableInvHolds, LimitInvHolds, PTL DEF Spec, KeepsEnough

-----------------------------------------------------------------------------
(* Transactions that overlap leave few rows too many.                      *)

(* One element more, and no more.                                          *)
LEMMA OneMore ==
  ASSUME NEW S, IsFiniteSet(S), NEW x, NEW T \in SUBSET (S \cup {x})
  PROVE  /\ IsFiniteSet(T)
         /\ Cardinality(S) \in Nat /\ Cardinality(T) \in Nat
         /\ Cardinality(T) <= Cardinality(S) + 1
<1>1. IsFiniteSet(S \cup {x})
  BY FS_AddElement
<1>2. Cardinality(S \cup {x}) <= Cardinality(S) + 1
  <2>1. Cardinality(S) \in Nat
    BY FS_CardinalityType
  <2>2. Cardinality(S \cup {x}) = IF x \in S THEN Cardinality(S) ELSE Cardinality(S) + 1
    BY FS_AddElement
  <2>3. QED
    BY <2>1, <2>2
<1>3. IsFiniteSet(T) /\ Cardinality(T) <= Cardinality(S \cup {x})
  BY <1>1, FS_Subset
<1>4. /\ Cardinality(S) \in Nat /\ Cardinality(T) \in Nat
      /\ Cardinality(S \cup {x}) \in Nat
  BY <1>1, <1>3, FS_CardinalityType
<1>5. QED
  BY <1>2, <1>3, <1>4

(* Of rows with different sids the newest are at most Limit.               *)
LEMMA NewestAreFew ==
  ASSUME NEW S, IsFiniteSet(S), \A r \in S : r.sid \in Nat,
         \A r, q \in S : r.sid = q.sid => r = q
  PROVE  Cardinality(Newest(S)) <= Limit
<1>1. Newest(S) \subseteq S /\ IsFiniteSet(Newest(S))
  BY FS_Subset DEF Newest
<1>2. Limit \in Nat /\ Limit >= 1
  BY SnapshotAssumption
<1>3. CASE Newest(S) = {}
  BY <1>2, <1>3, FS_EmptySet
<1>4. CASE Newest(S) # {}
  <2> DEFINE T == {r.sid : r \in Newest(S)}
  <2>1. T \in SUBSET Nat /\ T # {}
    BY <1>1, <1>4
  <2>2. PICK i \in T : \A j \in T : i <= j
    <3> HIDE DEF T
    <3>1. QED
      BY <2>1, NatMin
  <2>3. PICK m \in Newest(S) : \A r \in Newest(S) : m.sid <= r.sid
    BY <2>2
  <2>4. \A r \in Newest(S) : r # m => r \in Newer(S, m)
    BY <1>1, <2>3 DEF Newer
  <2>5. Newest(S) \subseteq Newer(S, m) \cup {m}
    BY <2>4
  <2>6. Cardinality(Newer(S, m)) < Limit
    BY <2>3 DEF Newest, Newer
  <2>7. IsFiniteSet(Newer(S, m))
    BY FS_Subset DEF Newer
  <2>8. /\ Cardinality(Newest(S)) <= Cardinality(Newer(S, m)) + 1
        /\ Cardinality(Newest(S)) \in Nat /\ Cardinality(Newer(S, m)) \in Nat
    BY <2>5, <2>7, OneMore
  <2>9. QED
    BY <1>2, <2>6, <2>8
<1>5. QED
  BY <1>3, <1>4

(* The rows that there are when w commits, and who deletes rows of o.      *)
Left(w) == Visible(w) \ tx[w].victims
Deleting(o) == {w \in Writers : Open(w) /\ tx[w].oid = o /\ tx[w].phase # "inserted"}

(* There is an account of the rows too many.  f says when each DELETE that *)
(* is under way started.  Of those that were committed, v's is the one     *)
(* that started last, at s; B are the tasks that committed after that,     *)
(* with a DELETE that had started before.  C[w] are the tasks that have    *)
(* committed since w started its DELETE.                                   *)
Accounts(o, n, f, s, v, B, C) ==
  /\ s < n /\ \A w \in Writers : f[w] < n
  /\ v \notin B /\ Cardinality(rows[o]) <= Limit + Cardinality(B)
  /\ v \in Deleting(o) => s < f[v]
  /\ \A w \in Deleting(o) :
       /\ f[w] # s /\ \A u \in Deleting(o) \ {w} : f[u] # f[w]
       /\ f[w] < s => w \notin B
       /\ s < f[w] =>
            /\ w \notin C[w] /\ Cardinality(Left(w)) <= Limit + Cardinality(C[w])
            /\ \A u \in Deleting(o) : f[u] < f[w] => u \notin C[w]
Accounted(o) ==
  \E n \in Nat, f \in [Writers -> Nat], s \in Nat, v \in Writers, B \in SUBSET Writers,
     C \in [Writers -> SUBSET Writers] : Accounts(o, n, f, s, v, B, C)

(* What a step leaves, and takes from the DELETEs, leaves the account.     *)
LEMMA AccountKept ==
  ASSUME NEW o \in Objects, Accounted(o), rows'[o] = rows[o],
         Deleting(o)' \subseteq Deleting(o), \A w \in Deleting(o)' : Left(w)' = Left(w)
  PROVE  Accounted(o)'
<1>1. PICK n \in Nat, f \in [Writers -> Nat], s \in Nat, v \in Writers, B \in SUBSET Writers,
           C \in [Writers -> SUBSET Writers] : Accounts(o, n, f, s, v, B, C)
  BY DEF Accounted
<1>2. Accounts(o, n, f, s, v, B, C)'
  BY <1>1 DEF Accounts
<1>3. QED
  BY <1>2 DEF Accounted

(* A DELETE that starts is the last one, and leaves the limit.             *)
LEMMA AccountStarts ==
  ASSUME TypeOK, TableInv, NEW w \in Writers, StartDelete(w), NEW o \in Objects, o = tx[w].oid,
         Accounted(o)
  PROVE  Accounted(o)'
<1>1. PICK n \in Nat, f \in [Writers -> Nat], s \in Nat, v \in Writers, B \in SUBSET Writers,
           C \in [Writers -> SUBSET Writers] : Accounts(o, n, f, s, v, B, C)
  BY DEF Accounted
<1>2. /\ Open(w) /\ tx[w].phase = "inserted" /\ rows' = rows
      /\ tx'[w].phase = "deleting"
      /\ tx'[w].oid = tx[w].oid /\ tx'[w].row = tx[w].row
      /\ tx'[w].victims = Visible(w) \ Newest(Visible(w))
      /\ \A u \in Writers \ {w} : tx'[u] = tx[u]
  BY TxSteps
<1>3. PICK g : g = [f EXCEPT ![w] = n]
  OBVIOUS
<1>4. PICK D : D = [C EXCEPT ![w] = {}]
  OBVIOUS
<1>5. /\ g \in [Writers -> Nat] /\ g[w] = n /\ \A u \in Writers \ {w} : g[u] = f[u]
      /\ D \in [Writers -> SUBSET Writers] /\ D[w] = {} /\ \A u \in Writers \ {w} : D[u] = C[u]
  BY <1>3, <1>4
<1>6. w \notin Deleting(o) /\ \A u \in Deleting(o)' : u = w \/ u \in Deleting(o) \ {w}
  BY <1>2 DEF Deleting, Open
<1>7. \A u \in Deleting(o) : Left(u)' = Left(u) /\ u \in Writers \ {w}
  BY <1>2, <1>6 DEF Deleting, Left, Visible
<1>8. Cardinality(Left(w)') <= Limit + Cardinality(D[w])
  <2>1. Left(w)' \subseteq Newest(Visible(w))
    BY <1>2 DEF Left, Visible
  <2>2. IsFiniteSet(Visible(w)) /\ Cardinality(Newest(Visible(w))) <= Limit
    BY <1>2, VisibleFacts, NewestAreFew
  <2>3. IsFiniteSet(Newest(Visible(w)))
    BY <2>2, FS_Subset DEF Newest
  <2>4. /\ Cardinality(Left(w)') <= Cardinality(Newest(Visible(w)))
        /\ Cardinality(Left(w)') \in Nat /\ Cardinality(Newest(Visible(w))) \in Nat
    BY <2>1, <2>3, FS_Subset, FS_CardinalityType
  <2>5. Cardinality(D[w]) = 0
    BY <1>5, FS_EmptySet
  <2>6. QED
    BY <2>2, <2>4, <2>5, SnapshotAssumption
<1>9. \A u \in Writers : f[u] < n /\ f[u] \in Nat
  BY <1>1 DEF Accounts
<1>10. /\ s < n + 1 /\ (\A u \in Writers : g[u] < n + 1) /\ s < g[w]
       /\ \A u \in Writers \ {w} : g[u] < g[w]
  BY <1>1, <1>5, <1>9 DEF Accounts
<1>11. v \in Deleting(o)' => s < g[v]
  BY <1>1, <1>5, <1>6, <1>7, <1>10 DEF Accounts
<1>12. ASSUME NEW x \in Deleting(o)'
       PROVE  /\ g[x] # s /\ \A u \in Deleting(o)' \ {x} : g[u] # g[x]
              /\ g[x] < s => x \notin B
              /\ s < g[x] =>
                   /\ x \notin D[x] /\ Cardinality(Left(x)') <= Limit + Cardinality(D[x])
                   /\ \A u \in Deleting(o)' : g[u] < g[x] => u \notin D[x]
  <2>1. \A u \in Deleting(o)' : g[u] \in Nat
    BY <1>5, <1>6, <1>7
  <2>2. CASE x = w
    <3>1. g[w] \in Nat /\ \A u \in Deleting(o)' \ {w} : g[u] # g[w]
      BY <1>5, <1>6, <1>7, <1>10, <2>1
    <3>2. g[w] # s /\ ~(g[w] < s)
      BY <1>10, <3>1
    <3>3. QED
      BY <1>5, <1>8, <2>2, <3>1, <3>2
  <2>3. CASE x \in Deleting(o) \ {w}
    <3>1. g[x] = f[x] /\ D[x] = C[x] /\ Left(x)' = Left(x) /\ g[x] < g[w]
      BY <1>5, <1>7, <1>10, <2>3
    <3>2. \A u \in Deleting(o)' : g[u] < g[x] => u \in Deleting(o) /\ g[u] = f[u]
      BY <1>5, <1>6, <1>7, <1>10, <2>1, <2>3
    <3>3. \A u \in Deleting(o)' \ {x} : g[u] # g[x]
      BY <1>1, <1>5, <1>6, <1>7, <2>1, <2>3, <3>1 DEF Accounts
    <3>4. QED
      BY <1>1, <2>3, <3>1, <3>2, <3>3 DEF Accounts
  <2>4. QED
    BY <1>6, <2>2, <2>3
<1>13. rows'[o] = rows[o] /\ v \notin B /\ Cardinality(rows[o]) <= Limit + Cardinality(B)
  BY <1>1, <1>2 DEF Accounts
<1>14. PICK m \in Nat : m = n + 1
  OBVIOUS
<1>15. Accounts(o, m, g, s, v, B, D)'
  BY <1>10, <1>11, <1>12, <1>13, <1>14 DEF Accounts
<1>16. QED
  BY <1>5, <1>15 DEF Accounted

(* A commit adds one row at most, to the table and to what another one     *)
(* would leave.                                                            *)
LEMMA CommitAddsOne ==
  ASSUME TypeOK, TableInv, NEW w \in Writers, Commit(w), NEW o \in Objects, o = tx[w].oid
  PROVE  /\ w \in Deleting(o) /\ rows'[o] = Left(w)
         /\ Deleting(o)' = Deleting(o) \ {w}
         /\ Cardinality(rows[o]) \in Nat /\ Cardinality(rows'[o]) \in Nat
         /\ Cardinality(rows'[o]) <= Cardinality(rows[o]) + 1
         /\ \A x \in Deleting(o) \ {w} :
              /\ Cardinality(Left(x)) \in Nat /\ Cardinality(Left(x)') \in Nat
              /\ Cardinality(Left(x)') <= Cardinality(Left(x)) + 1
<1>1. /\ Open(w) /\ tx[w].phase = "deleted" /\ rows'[o] = Left(w)
      /\ tx'[w] = Idle /\ \A v \in Writers \ {w} : tx'[v] = tx[v]
  BY TxSteps DEF Left
<1>2. w \in Deleting(o) /\ Deleting(o)' = Deleting(o) \ {w}
  BY <1>1 DEF Deleting, Open
<1>3. rows'[o] \subseteq rows[o] \cup {tx[w].row}
  BY <1>1 DEF Left, Visible
<1>4. /\ Cardinality(rows[o]) \in Nat /\ Cardinality(rows'[o]) \in Nat
      /\ Cardinality(rows'[o]) <= Cardinality(rows[o]) + 1
  <2>1. IsFiniteSet(rows[o])
    BY DEF TableInv, Numbered
  <2>2. QED
    BY <1>3, <2>1, OneMore
<1>5. ASSUME NEW x \in Deleting(o) \ {w}
      PROVE  /\ Cardinality(Left(x)) \in Nat /\ Cardinality(Left(x)') \in Nat
             /\ Cardinality(Left(x)') <= Cardinality(Left(x)) + 1
  <2>1. x \in Writers /\ Open(x) /\ tx[x].oid = o /\ tx'[x] = tx[x]
    BY <1>1 DEF Deleting
  <2>2. IsFiniteSet(Left(x))
    BY <2>1, VisibleFacts, FS_Subset DEF Left
  <2>3. Left(x)' \subseteq Left(x) \cup {tx[w].row}
    BY <1>3, <2>1 DEF Left, Visible
  <2>4. QED
    BY <2>2, <2>3, OneMore
<1>6. QED
  BY <1>1, <1>2, <1>4, <1>5

(* A commit is entered into the account.                                   *)
LEMMA AccountCommits ==
  ASSUME TypeOK, TableInv, NEW w \in Writers, Commit(w), NEW o \in Objects, o = tx[w].oid,
         Accounted(o)
  PROVE  Accounted(o)'
<1>1. PICK n \in Nat, f \in [Writers -> Nat], s \in Nat, v \in Writers, B \in SUBSET Writers,
           C \in [Writers -> SUBSET Writers] : Accounts(o, n, f, s, v, B, C)
  BY DEF Accounted
<1>2. /\ w \in Deleting(o) /\ rows'[o] = Left(w)
      /\ Deleting(o)' = Deleting(o) \ {w}
      /\ Cardinality(rows[o]) \in Nat /\ Cardinality(rows'[o]) \in Nat
      /\ Cardinality(rows'[o]) <= Cardinality(rows[o]) + 1
      /\ \A x \in Deleting(o) \ {w} :
           /\ Cardinality(Left(x)) \in Nat /\ Cardinality(Left(x)') \in Nat
           /\ Cardinality(Left(x)') <= Cardinality(Left(x)) + 1
  BY CommitAddsOne
<1>3. PICK D : D = [x \in Writers |-> C[x] \cup {w}]
  OBVIOUS
<1>4. D \in [Writers -> SUBSET Writers] /\ \A x \in Writers : D[x] = C[x] \cup {w}
  BY <1>3
<1>5. Limit \in Nat
  BY SnapshotAssumption
<1>6. ASSUME NEW S \in SUBSET Writers, w \notin S
      PROVE  /\ Cardinality(S) \in Nat /\ Cardinality(S \cup {w}) \in Nat
             /\ Cardinality(S \cup {w}) = Cardinality(S) + 1
  <2>1. IsFiniteSet(Writers)
    BY SnapshotAssumption, FS_AddElement DEF Writers
  <2>2. IsFiniteSet(S) /\ IsFiniteSet(S \cup {w})
    BY <2>1, FS_Subset, FS_AddElement
  <2>3. Cardinality(S) \in Nat /\ Cardinality(S \cup {w}) \in Nat
    BY <2>2, FS_CardinalityType
  <2>4. Cardinality(S \cup {w}) = Cardinality(S) + 1
    BY <1>6, <2>2, FS_AddElement
  <2>5. QED
    BY <2>3, <2>4
<1>7. \A x \in Deleting(o) : x \in Writers /\ f[x] \in Nat
  BY DEF Deleting
<1>8. ASSUME NEW x \in Deleting(o) \ {w}, s < f[x], f[w] < f[x]
      PROVE  /\ x \notin D[x] /\ Cardinality(Left(x)') <= Limit + Cardinality(D[x])
             /\ \A u \in Deleting(o)' : f[u] < f[x] => u \notin D[x]
  <2>1. /\ x \notin C[x] /\ Cardinality(Left(x)) <= Limit + Cardinality(C[x])
        /\ \A u \in Deleting(o) : f[u] < f[x] => u \notin C[x]
    BY <1>1, <1>8 DEF Accounts
  <2>2. w \notin C[x] /\ C[x] \in SUBSET Writers /\ D[x] = C[x] \cup {w}
    BY <1>2, <1>4, <1>7, <1>8, <2>1
  <2>3. /\ Cardinality(C[x]) \in Nat /\ Cardinality(D[x]) \in Nat
        /\ Cardinality(D[x]) = Cardinality(C[x]) + 1
    BY <1>6, <2>2
  <2>4. Cardinality(Left(x)') <= Limit + Cardinality(D[x])
    <3>1. /\ Cardinality(Left(x)) \in Nat /\ Cardinality(Left(x)') \in Nat
          /\ Cardinality(Left(x)') <= Cardinality(Left(x)) + 1
      BY <1>2
    <3>2. QED
      BY <1>5, <2>1, <2>3, <3>1
  <2>5. QED
    BY <1>2, <2>1, <2>2, <2>4
<1>9. \A x \in Deleting(o) : \A u \in Deleting(o) \ {x} : f[u] # f[x]
  BY <1>1 DEF Accounts
<1>10. s < n /\ \A x \in Writers : f[x] < n
  BY <1>1 DEF Accounts
<1>11. CASE f[w] < s
  <2>1. w # v /\ w \notin B /\ v \notin B \cup {w}
    BY <1>1, <1>2, <1>7, <1>11 DEF Accounts
  <2>2. Cardinality(rows'[o]) <= Limit + Cardinality(B \cup {w})
    <3>1. Cardinality(rows[o]) <= Limit + Cardinality(B)
      BY <1>1 DEF Accounts
    <3>2. /\ Cardinality(B) \in Nat /\ Cardinality(B \cup {w}) \in Nat
          /\ Cardinality(B \cup {w}) = Cardinality(B) + 1
      BY <1>6, <2>1
    <3>3. QED
      BY <1>2, <1>5, <3>1, <3>2
  <2>3. v \in Deleting(o)' => s < f[v]
    BY <1>1, <1>2 DEF Accounts
  <2>4. ASSUME NEW x \in Deleting(o)'
        PROVE  /\ f[x] # s /\ \A u \in Deleting(o)' \ {x} : f[u] # f[x]
               /\ f[x] < s => x \notin B \cup {w}
               /\ s < f[x] =>
                    /\ x \notin D[x] /\ Cardinality(Left(x)') <= Limit + Cardinality(D[x])
                    /\ \A u \in Deleting(o)' : f[u] < f[x] => u \notin D[x]
    <3>1. x \in Deleting(o) \ {w} /\ f[x] # s /\ (f[x] < s => x \notin B)
      BY <1>1, <1>2 DEF Accounts
    <3>2. s < f[x] => f[w] < f[x]
      BY <1>2, <1>7, <1>11, <3>1
    <3>3. QED
      BY <1>2, <1>8, <1>9, <3>1, <3>2
  <2>5. PICK A \in SUBSET Writers : A = B \cup {w}
    OBVIOUS
  <2>6. Accounts(o, n, f, s, v, A, D)'
    BY <1>10, <2>1, <2>2, <2>3, <2>4, <2>5 DEF Accounts
  <2>7. QED
    BY <1>4, <2>6 DEF Accounted
<1>12. CASE s < f[w]
  <2>1. PICK t \in Nat, A \in SUBSET Writers : t = f[w] /\ A = C[w]
    OBVIOUS
  <2>2. /\ w \notin A /\ Cardinality(rows'[o]) <= Limit + Cardinality(A)
        /\ \A u \in Deleting(o) : f[u] < t => u \notin A
    BY <1>1, <1>2, <1>12, <2>1 DEF Accounts
  <2>3. ASSUME NEW x \in Deleting(o)'
        PROVE  /\ f[x] # t /\ \A u \in Deleting(o)' \ {x} : f[u] # f[x]
               /\ f[x] < t => x \notin A
               /\ t < f[x] =>
                    /\ x \notin D[x] /\ Cardinality(Left(x)') <= Limit + Cardinality(D[x])
                    /\ \A u \in Deleting(o)' : f[u] < f[x] => u \notin D[x]
    <3>1. x \in Deleting(o) \ {w} /\ f[x] \in Nat
      BY <1>2, <1>7
    <3>2. t < f[x] => s < f[x] /\ f[w] < f[x]
      BY <1>12, <2>1, <3>1
    <3>3. QED
      BY <1>2, <1>8, <1>9, <2>1, <2>2, <3>1, <3>2
  <2>4. w \notin Deleting(o)' /\ t < n
    BY <1>2, <1>10, <2>1
  <2>5. Accounts(o, n, f, t, w, A, D)'
    BY <1>10, <2>2, <2>3, <2>4 DEF Accounts
  <2>6. QED
    BY <1>4, <2>5 DEF Accounted
<1>13. f[w] # s /\ f[w] \in Nat
  BY <1>1, <1>2 DEF Accounts
<1>14. QED
  BY <1>11, <1>12, <1>13

(* Every step keeps the account of every object.                           *)
LEMMA AccountStep ==
  ASSUME SnapshotInv, TableInv, [Next]_vars, NEW o \in Objects, Accounted(o)
  PROVE  Accounted(o)'
<1>0. TypeOK
  BY DEF SnapshotInv
<1>1. CASE UNCHANGED <<rows, tx, sid>>
  <2>1. rows'[o] = rows[o] /\ Deleting(o)' = Deleting(o) /\ \A w \in Writers : Left(w)' = Left(w)
    BY <1>1 DEF Deleting, Open, Left, Visible
  <2>2. QED
    BY <2>1, AccountKept DEF Deleting
<1>2. ASSUME NEW w \in Writers, rows'[o] = rows[o], \A v \in Writers \ {w} : tx'[v] = tx[v],
             w \notin Deleting(o)'
      PROVE  Accounted(o)'
  <2>1. \A v \in Deleting(o)' : v \in Deleting(o) \ {w}
    BY <1>2 DEF Deleting, Open
  <2>2. \A v \in Deleting(o)' : Left(v)' = Left(v)
    <3>1. \A v \in Deleting(o)' : tx'[v] = tx[v] /\ tx[v].oid = o
      BY <1>2, <2>1 DEF Deleting
    <3>2. QED
      BY <1>2, <3>1 DEF Left, Visible
  <2>3. QED
    BY <1>2, <2>1, <2>2, AccountKept
<1>3. ASSUME NEW w \in Writers, Begins(w) PROVE Accounted(o)'
  <2>1. PICK p \in Objects, d \in Nat : Insert(w, p, d)
    BY <1>3 DEF Begins
  <2>2. /\ rows' = rows /\ \A v \in Writers \ {w} : tx'[v] = tx[v]
        /\ tx'[w] = [phase |-> "inserted", oid |-> p,
                     row |-> [sid |-> sid + 1, data |-> d], victims |-> {}]
    BY <1>0, <2>1, TxSteps
  <2>3. w \notin Deleting(o)'
    BY <2>2 DEF Deleting
  <2>4. QED
    BY <1>2, <2>2, <2>3
<1>4. ASSUME NEW w \in Writers, Fails(w) PROVE Accounted(o)'
  <2>1. rows' = rows /\ tx'[w] = Idle /\ \A v \in Writers \ {w} : tx'[v] = tx[v]
    BY <1>0, <1>4, TxSteps
  <2>2. w \notin Deleting(o)'
    BY <2>1 DEF Deleting, Open
  <2>3. QED
    BY <1>2, <2>1, <2>2
<1>5. ASSUME NEW w \in Writers, StartDelete(w) PROVE Accounted(o)'
  <2>1. CASE o = tx[w].oid
    BY <1>0, <1>5, <2>1, AccountStarts
  <2>2. CASE o # tx[w].oid
    <3>1. rows' = rows /\ tx'[w].oid = tx[w].oid /\ \A v \in Writers \ {w} : tx'[v] = tx[v]
      BY <1>0, <1>5, TxSteps
    <3>2. w \notin Deleting(o)'
      BY <2>2, <3>1 DEF Deleting
    <3>3. QED
      BY <1>2, <3>1, <3>2
  <2>3. QED
    BY <2>1, <2>2
<1>6. ASSUME NEW w \in Writers, FinishDelete(w) PROVE Accounted(o)'
  <2>1. /\ Open(w) /\ tx[w].phase = "deleting" /\ rows' = rows
        /\ tx'[w].oid = tx[w].oid /\ tx'[w].row = tx[w].row
        /\ tx'[w].victims = tx[w].victims \cap Visible(w)
        /\ \A v \in Writers \ {w} : tx'[v] = tx[v]
    BY <1>0, <1>6, TxSteps
  <2>2. Deleting(o)' \subseteq Deleting(o)
    BY <2>1 DEF Deleting, Open
  <2>3. Visible(w)' = Visible(w) /\ Left(w)' = Visible(w) \ tx'[w].victims
    BY <2>1 DEF Left, Visible
  <2>4. Left(w)' = Left(w)
    BY <2>1, <2>3 DEF Left
  <2>5. \A v \in Writers \ {w} : Left(v)' = Left(v)
    BY <2>1 DEF Left, Visible
  <2>6. \A v \in Deleting(o)' : Left(v)' = Left(v)
    BY <2>4, <2>5 DEF Deleting
  <2>7. QED
    BY <2>1, <2>2, <2>6, AccountKept
<1>7. ASSUME NEW w \in Writers, Commit(w) PROVE Accounted(o)'
  <2>1. CASE o = tx[w].oid
    BY <1>0, <1>7, <2>1, AccountCommits
  <2>2. CASE o # tx[w].oid
    <3>1. /\ rows'[o] = rows[o] /\ tx'[w] = Idle
          /\ \A v \in Writers \ {w} : tx'[v] = tx[v]
      BY <1>0, <1>7, <2>2, TxSteps
    <3>2. w \notin Deleting(o)'
      BY <3>1 DEF Deleting, Open
    <3>3. QED
      BY <1>2, <3>1, <3>2
  <2>3. QED
    BY <2>1, <2>2
<1>8. QED
  BY <1>1, <1>3, <1>4, <1>5, <1>6, <1>7, TableSteps DEF Write

(* The account starts without rows and without DELETEs.                    *)
LEMMA AccountInit == Init => \A o \in Objects : Accounted(o)
<1> SUFFICES ASSUME Init, NEW o \in Objects PROVE Accounted(o)
  OBVIOUS
<1>1. PICK n \in Nat, f \in [Writers -> Nat], s \in Nat, v \in Writers, B \in SUBSET Writers,
           C \in [Writers -> SUBSET Writers] :
        n = 1 /\ s = 0 /\ f = [w \in Writers |-> 0] /\ v = Runner /\ B = {}
        /\ C = [w \in Writers |-> {}]
  BY DEF Writers
<1>2. rows[o] = {} /\ Deleting(o) = {}
  BY DEF Init, Deleting, Open
<1>3. Cardinality(rows[o]) = 0 /\ Cardinality(B) = 0
  BY <1>1, <1>2, FS_EmptySet
<1>4. Cardinality(rows[o]) <= Limit + Cardinality(B)
  BY <1>3, SnapshotAssumption
<1>5. Accounts(o, n, f, s, v, B, C)
  BY <1>1, <1>2, <1>4 DEF Accounts
<1>6. QED
  BY <1>5 DEF Accounted

(* The tasks that commit after the last committed DELETE are others.       *)
LEMMA AccountLimits ==
  ASSUME NEW o \in Objects, TableInv, Accounted(o)
  PROVE  Cardinality(rows[o]) <= Limit + Cardinality(Requests)
<1>1. PICK v \in Writers, B \in SUBSET Writers :
        v \notin B /\ Cardinality(rows[o]) <= Limit + Cardinality(B)
  BY DEF Accounted, Accounts
<1>2. IsFiniteSet(Requests) /\ Runner \notin Requests
  BY SnapshotAssumption
<1>3. IsFiniteSet(Writers)
  BY <1>2, FS_AddElement DEF Writers
<1>4. Cardinality(Writers) = Cardinality(Requests) + 1
  BY <1>2, FS_AddElement DEF Writers
<1>5. Cardinality(Writers \ {v}) = Cardinality(Writers) - 1
  BY <1>1, <1>3, FS_RemoveElement
<1>6. IsFiniteSet(Writers \ {v}) /\ B \subseteq Writers \ {v}
  BY <1>1, <1>3, FS_RemoveElement
<1>7. IsFiniteSet(B) /\ Cardinality(B) <= Cardinality(Writers \ {v})
  BY <1>6, FS_Subset
<1>8. Cardinality(B) \in Nat /\ Cardinality(Requests) \in Nat /\ Cardinality(rows[o]) \in Nat
  <2>1. IsFiniteSet(rows[o])
    BY DEF TableInv, Numbered
  <2>2. QED
    BY <1>2, <1>7, <2>1, FS_CardinalityType
<1>9. QED
  BY <1>1, <1>4, <1>5, <1>7, <1>8, SnapshotAssumption

(* However many transactions overlap, an object has at most one snapshot   *)
(* above the limit for each other task (create_snapshot_and_maintain_limit).*)
THEOREM LimitAlmostKept == Spec => []LimitNearlyKept
<1> DEFINE AccountInv == \A o \in Objects : Accounted(o)
<1>1. Init => AccountInv
  BY AccountInit
<1>2. SnapshotInv /\ TableInv /\ AccountInv /\ [Next]_vars => AccountInv'
  BY AccountStep
<1>3. TableInv /\ AccountInv => LimitNearlyKept
  BY AccountLimits DEF LimitNearlyKept
<1>4. QED
  BY <1>1, <1>2, <1>3, Invariance, TableInvHolds, PTL DEF Spec
-----------------------------------------------------------------------------
(* The data of a snapshot is written once.                                 *)

(* The insert commands of the channel.                                     *)
Waiting == {i \in 1 .. Len(commands) : commands[i].type = "insert"}

(* No row and no object has the data, and no transaction but w's writes it.*)
Unstored(d) ==
  d <= version /\ \A o \in Objects : cache[o] # d /\ \A r \in rows[o] : r.data # d
Unwritten(d, w) == \A v \in Writers \ {w} : Open(v) => tx[v].row.data # d

VersionsTaken ==
  /\ \A o \in Objects : cache[o] # None => cache[o] <= version
  /\ \A o \in Objects : \A r \in rows[o] : r.data <= version
  /\ \A w \in Writers : Open(w) => tx[w].row.data <= version
QueueNew ==
  \A i \in Waiting :
    /\ Unstored(commands[i].data)
    /\ \A v \in Writers : Open(v) => tx[v].row.data # commands[i].data
    /\ \A j \in Waiting : commands[j].data = commands[i].data => j = i
RequestsNew ==
  \A w \in Requests :
    Open(w) => Unstored(tx[w].row.data) /\ Unwritten(tx[w].row.data, w)

(* What redis still has and the table has too was committed just now.      *)
RemovedNext ==
  \A o \in Objects \ unremoved : \A r \in rows[o] :
    r.data = cache[o] => item # None /\ item.oid = o /\ ~Open(Runner)
RunnerNew ==
  Open(Runner) /\ tx[Runner].oid \notin unremoved =>
    \A r \in rows[tx[Runner].oid] : r.data # tx[Runner].row.data
DataInv ==
  VersionsTaken /\ QueueNew /\ RequestsNew /\ RemovedNext /\ RunnerNew /\ WrittenOnce

(* What the invariants say about versions.                                 *)
LEMMA DataTypes ==
  ASSUME TypeOK
  PROVE  /\ \A o \in Objects : cache[o] \in Nat \cup {None}
         /\ \A o \in Objects : \A r \in rows[o] : r.data \in Nat
         /\ \A w \in Writers : Open(w) => tx[w].row.data \in Nat /\ tx[w].oid \in Objects
         /\ \A i \in Waiting : i \in Nat /\ commands[i].data \in Nat
         /\ version \in Nat /\ None \notin Nat
         /\ Runner \in Writers /\ \A w \in Requests : w \in Writers \ {Runner}
<1>1. \A o \in Objects : cache[o] \in Nat \cup {None}
  BY DEF TypeOK
<1>2. \A o \in Objects : \A r \in rows[o] : r.data \in Nat
  BY DEF TypeOK, Row
<1>3. \A w \in Writers : Open(w) => tx[w].row.data \in Nat /\ tx[w].oid \in Objects
  BY OpenTyped
<1>4. ASSUME NEW i \in Waiting PROVE i \in Nat /\ commands[i].data \in Nat
  <2>1. commands \in Seq(Command) /\ i \in 1 .. Len(commands)
    BY DEF TypeOK, Waiting
  <2>2. commands[i] \in Command /\ commands[i] # Tick
    BY <2>1 DEF Waiting, Tick
  <2>3. PICK o \in Objects, d \in 1 .. MaxVersion : commands[i] = InsertSnapshot(o, d)
    BY <2>2 DEF Command
  <2>4. QED
    BY <2>1, <2>3, SnapshotAssumption DEF InsertSnapshot
<1>5. version \in Nat /\ None \notin Nat
  BY SnapshotAssumption DEF TypeOK
<1>6. Runner \in Writers /\ \A w \in Requests : w \in Writers \ {Runner}
  BY SnapshotAssumption DEF Writers
<1>7. QED
  BY <1>1, <1>2, <1>3, <1>4, <1>5, <1>6

(* A channel that loses its head, or gets a Tick, has no other inserts.    *)
LEMMA QueueMoves ==
  ASSUME TypeOK,
         \/ commands' = commands
         \/ commands' = Append(commands, Tick)
         \/ commands # <<>> /\ commands' = Tail(commands)
  PROVE  \E k \in {0, 1} : \A i \in Waiting' :
           i \in Nat /\ i + k \in Waiting /\ commands'[i] = commands[i + k]
<1>1. commands \in Seq(Command)
  BY DEF TypeOK
<1>2. CASE commands' = commands
  BY <1>1, <1>2 DEF Waiting
<1>3. CASE commands' = Append(commands, Tick)
  <2>1. /\ Len(commands') = Len(commands) + 1 /\ Len(commands) \in Nat
        /\ \A i \in 1 .. Len(commands) : commands'[i] = commands[i]
        /\ commands'[Len(commands) + 1] = Tick
    BY <1>1, <1>3, AppendProperties DEF Command
  <2>2. \A i \in Waiting' : i \in 1 .. Len(commands) + 1 /\ commands'[i].type = "insert"
    BY <2>1 DEF Waiting
  <2>3. \A i \in Waiting' : i \in 1 .. Len(commands)
    BY <2>1, <2>2 DEF Tick
  <2>4. QED
    BY <2>1, <2>2, <2>3 DEF Waiting
<1>4. CASE commands # <<>> /\ commands' = Tail(commands)
  <2>1. /\ Len(commands') = Len(commands) - 1 /\ Len(commands) \in Nat
        /\ \A i \in 1 .. Len(commands') : commands'[i] = commands[i + 1]
    BY <1>1, <1>4, HeadTailProperties
  <2>2. QED
    BY <2>1 DEF Waiting
<1>5. QED
  BY <1>2, <1>3, <1>4

(* The data of waiting inserts stays new while others are stored.          *)
LEMMA QueueNewKept ==
  ASSUME TypeOK, QueueNew, NEW k \in {0, 1},
         \A i \in Waiting' :
           i \in Nat /\ i + k \in Waiting /\ commands'[i] = commands[i + k],
         \A i \in Waiting' :
           /\ Unstored(commands[i].data)'
           /\ \A v \in Writers : Open(v)' => tx'[v].row.data # commands'[i].data
  PROVE  QueueNew'
<1> SUFFICES ASSUME NEW i \in Waiting', NEW j \in Waiting',
                    commands'[j].data = commands'[i].data
             PROVE  j = i
  BY DEF QueueNew
<1>1. j + k = i + k /\ i \in Nat /\ j \in Nat
  BY DEF QueueNew
<1>2. QED
  BY <1>1

(* A step that only moves the channel keeps the data apart.                *)
LEMMA DataQueue ==
  ASSUME TypeOK, DataInv, UNCHANGED <<cache, rows, tx, version, item, unremoved>>,
         \/ commands' = commands
         \/ commands' = Append(commands, Tick)
         \/ commands # <<>> /\ commands' = Tail(commands)
  PROVE  DataInv'
<1>1. PICK k \in {0, 1} : \A i \in Waiting' :
        i \in Nat /\ i + k \in Waiting /\ commands'[i] = commands[i + k]
  BY QueueMoves
<1>2. \A v \in Writers : Open(v)' <=> Open(v)
  BY DEF Open
<1>3. QueueNew'
  <2>1. \A i \in Waiting' :
          /\ Unstored(commands[i].data)'
          /\ \A v \in Writers : Open(v)' => tx'[v].row.data # commands'[i].data
    <3> SUFFICES ASSUME NEW i \in Waiting'
                 PROVE  /\ Unstored(commands[i].data)'
                        /\ \A v \in Writers : Open(v)' => tx'[v].row.data # commands'[i].data
      OBVIOUS
    <3>1. PICK j \in Waiting : commands'[i] = commands[j]
      BY <1>1
    <3>2. /\ Unstored(commands[j].data)
          /\ \A v \in Writers : Open(v) => tx[v].row.data # commands[j].data
      BY DEF DataInv, QueueNew
    <3>3. QED
      BY <1>2, <3>1, <3>2 DEF Unstored
  <2>2. QED
    BY <1>1, <2>1, QueueNewKept DEF DataInv
<1>4. VersionsTaken'
  BY <1>2 DEF DataInv, VersionsTaken
<1>5. RequestsNew'
  BY DEF DataInv, RequestsNew, Unwritten, Unstored, Open
<1>6. RemovedNext' /\ RunnerNew' /\ WrittenOnce'
  BY DEF DataInv, RemovedNext, RunnerNew, WrittenOnce, Open
<1>7. QED
  BY <1>3, <1>4, <1>5, <1>6 DEF DataInv

(* A step after which fewer transactions are open, less is stored, and the *)
(* runner's item goes on or nothing of it is left in redis.                *)
LEMMA DataLess ==
  ASSUME TypeOK, DataInv, UNCHANGED <<commands, rows, version>>,
         \A o \in Objects : cache'[o] \in {None, cache[o]},
         \A v \in Writers : Open(v)' =>
           Open(v) /\ tx'[v].row = tx[v].row /\ tx'[v].oid = tx[v].oid,
         unremoved \subseteq unremoved', RemovedNext'
  PROVE  DataInv'
<1>1. Waiting' = Waiting
  BY DEF Waiting
<1>2. \A d \in Nat : Unstored(d) => Unstored(d)'
  BY DataTypes DEF Unstored
<1>3. VersionsTaken'
  BY DEF DataInv, VersionsTaken
<1>4. QueueNew'
  <2>1. \A i \in Waiting : Unstored(commands[i].data)'
    <3>1. ASSUME NEW i \in Waiting PROVE Unstored(commands[i].data)'
      <4>1. Unstored(commands[i].data) /\ commands[i].data \in Nat
        BY DataTypes DEF DataInv, QueueNew
      <4>2. commands'[i].data = commands[i].data
        OBVIOUS
      <4>3. QED
        BY <1>2, <4>1, <4>2 DEF Unstored
    <3>2. QED
      BY <3>1
  <2>2. QED
    BY <1>1, <2>1 DEF DataInv, QueueNew
<1>5. RequestsNew'
  <2>1. ASSUME NEW w \in Requests, Open(w)'
        PROVE  Unstored(tx[w].row.data)' /\ Unwritten(tx[w].row.data, w)'
    <3>1. Open(w) /\ tx'[w].row = tx[w].row /\ w \in Writers /\ tx[w].row.data \in Nat
      BY <2>1, DataTypes
    <3>2. Unstored(tx[w].row.data) /\ Unwritten(tx[w].row.data, w)
      BY <3>1 DEF DataInv, RequestsNew
    <3>3. QED
      BY <1>2, <3>1, <3>2 DEF Unstored, Unwritten
  <2>2. QED
    BY <2>1 DEF RequestsNew
<1>6. RunnerNew' /\ WrittenOnce'
  BY DataTypes DEF DataInv, RunnerNew, WrittenOnce
<1>7. QED
  BY <1>3, <1>4, <1>5, <1>6 DEF DataInv

(* A task begins to write data that is stored nowhere.                     *)
LEMMA DataBegins ==
  ASSUME TypeOK, DataInv, NEW w \in Requests, NEW o \in Objects, CreateSnapshot(w, o)
  PROVE  DataInv'
<1>1. w \in Writers \ {Runner} /\ version + 1 \in Nat /\ version \in Nat
  BY DataTypes
<1>2. Insert(w, o, version + 1)
  BY DEF CreateSnapshot
<1>3. tx'[w] = [phase |-> "inserted", oid |-> o,
                row |-> [sid |-> sid + 1, data |-> version + 1], victims |-> {}]
  BY <1>1, <1>2, TxSteps
<1>4. /\ rows' = rows /\ \A v \in Writers \ {w} : tx'[v] = tx[v]
      /\ tx'[w].row.data = version + 1 /\ version' = version + 1
      /\ UNCHANGED <<commands, cache, item, unremoved>>
  BY <1>1, <1>2, <1>3, TxSteps DEF CreateSnapshot, queueVars
<1>5. PICK e \in Nat : e = version + 1
  BY <1>1
<1>6. \A d \in Nat : Unstored(d) => d # e /\ Unstored(d)'
  BY <1>1, <1>4, <1>5 DEF Unstored
<1>7. Unstored(e)'
  BY <1>1, <1>4, <1>5, DataTypes DEF DataInv, VersionsTaken, Unstored
<1>8. VersionsTaken'
  BY <1>1, <1>4, DataTypes DEF DataInv, VersionsTaken, Open
<1>9. Waiting' = Waiting
  BY <1>4 DEF Waiting
<1>10. QueueNew'
  <2>1. ASSUME NEW i \in Waiting
        PROVE  /\ Unstored(commands[i].data)'
               /\ \A v \in Writers : Open(v)' => tx'[v].row.data # commands[i].data
    <3>1. commands[i].data \in Nat /\ Unstored(commands[i].data)
      BY DataTypes DEF DataInv, QueueNew
    <3>2. Unstored(commands[i].data)' /\ commands[i].data # e
      BY <1>4, <1>6, <3>1 DEF Unstored
    <3>3. QED
      BY <1>4, <1>5, <3>2 DEF DataInv, QueueNew, Open
  <2>2. QED
    BY <1>4, <1>9, <2>1 DEF DataInv, QueueNew
<1>11. RequestsNew'
  <2>1. ASSUME NEW v \in Writers, Open(v) PROVE tx[v].row.data # e
    BY <1>1, <1>5, <2>1, DataTypes DEF DataInv, VersionsTaken
  <2>2. Unstored(tx[w].row.data)' /\ Unwritten(tx[w].row.data, w)'
    BY <1>4, <1>5, <1>7, <2>1 DEF Unstored, Unwritten, Open
  <2>3. ASSUME NEW v \in Requests \ {w}, Open(v)'
        PROVE  Unstored(tx[v].row.data)' /\ Unwritten(tx[v].row.data, v)'
    <3>1. v \in Writers /\ tx'[v] = tx[v] /\ Open(v) /\ tx[v].row.data \in Nat
      BY <1>4, <2>3, DataTypes DEF Open
    <3>2. Unstored(tx[v].row.data) /\ Unwritten(tx[v].row.data, v)
      BY <3>1 DEF DataInv, RequestsNew
    <3>3. Unstored(tx[v].row.data)'
      BY <1>4, <1>6, <3>1, <3>2 DEF Unstored
    <3>4. QED
      BY <1>4, <1>5, <2>1, <3>1, <3>2, <3>3 DEF Unwritten, Open
  <2>4. QED
    BY <2>2, <2>3 DEF RequestsNew
<1>12. RemovedNext' /\ RunnerNew' /\ WrittenOnce'
  BY <1>1, <1>4, DataTypes DEF DataInv, RemovedNext, RunnerNew, WrittenOnce, Open
<1>13. QED
  BY <1>8, <1>10, <1>11, <1>12 DEF DataInv

(* The runner begins to write what redis has of an object.                 *)
LEMMA DataTick ==
  ASSUME TypeOK, DataInv, TickWrite
  PROVE  DataInv'
<1>1. PICK p \in pending :
        Writable(p.oid) /\ item' = p /\ Insert(Runner, p.oid, cache[p.oid])
  BY DEF TickWrite, Foremost
<1>2. p.oid \in Objects
  BY <1>1 DEF TypeOK, PendingItem
<1>3. cache[p.oid] \in Nat /\ Runner \in Writers /\ \A w \in Requests : w \in Writers \ {Runner}
  BY <1>1, <1>2, WritableFacts, DataTypes
<1>4. tx'[Runner] = [phase |-> "inserted", oid |-> p.oid,
                     row |-> [sid |-> sid + 1, data |-> cache[p.oid]], victims |-> {}]
  BY <1>1, <1>2, <1>3, TxSteps
<1>5. /\ ~Open(Runner) /\ rows' = rows /\ \A v \in Writers \ {Runner} : tx'[v] = tx[v]
      /\ tx'[Runner].oid = p.oid /\ tx'[Runner].row.data = cache[p.oid]
      /\ item = None /\ commands # <<>> /\ commands' = Tail(commands)
      /\ UNCHANGED <<cache, version, unremoved>>
  BY <1>1, <1>2, <1>3, <1>4, TxSteps DEF TickWrite, NextCommand
<1>6. VersionsTaken'
  BY <1>2, <1>3, <1>5, DataTypes DEF DataInv, VersionsTaken, Open
<1>7. PICK k \in {0, 1} : \A i \in Waiting' :
        i \in Nat /\ i + k \in Waiting /\ commands'[i] = commands[i + k]
  BY <1>5, QueueMoves
<1>8. QueueNew'
  <2>1. ASSUME NEW i \in Waiting'
        PROVE  /\ Unstored(commands[i].data)'
               /\ \A v \in Writers : Open(v)' => tx'[v].row.data # commands'[i].data
    <3>1. PICK j \in Waiting : commands'[i] = commands[j]
      BY <1>7
    <3>2. /\ Unstored(commands[j].data)
          /\ \A v \in Writers : Open(v) => tx[v].row.data # commands[j].data
      BY DEF DataInv, QueueNew
    <3>3. QED
      BY <1>2, <1>5, <3>1, <3>2 DEF Unstored, Open
  <2>2. QED
    BY <1>7, <2>1, QueueNewKept DEF DataInv
<1>9. RequestsNew'
  <2>1. ASSUME NEW v \in Requests, Open(v)'
        PROVE  Unstored(tx[v].row.data)' /\ Unwritten(tx[v].row.data, v)'
    <3>1. v \in Writers \ {Runner} /\ tx'[v] = tx[v] /\ Open(v)
      BY <1>3, <1>5, <2>1 DEF Open
    <3>2. Unstored(tx[v].row.data) /\ Unwritten(tx[v].row.data, v)
      BY <3>1 DEF DataInv, RequestsNew
    <3>3. Unstored(tx[v].row.data)'
      BY <1>5, <3>1, <3>2 DEF Unstored
    <3>4. tx[v].row.data # cache[p.oid]
      BY <1>2, <3>2 DEF Unstored
    <3>5. QED
      BY <1>5, <3>1, <3>2, <3>3, <3>4 DEF Unwritten, Open
  <2>2. QED
    BY <2>1 DEF RequestsNew
<1>10. RemovedNext' /\ RunnerNew' /\ WrittenOnce'
  BY <1>2, <1>5 DEF DataInv, RemovedNext, RunnerNew, WrittenOnce, Open
<1>11. QED
  BY <1>6, <1>8, <1>9, <1>10 DEF DataInv

(* Data gets into the channel that is nowhere else.                        *)
LEMMA DataQueued ==
  ASSUME TypeOK, DataInv, NEW o \in Objects, QueueSnapshot(o)
  PROVE  DataInv'
<1>1. PICK e \in Nat : e = version + 1
  BY DataTypes
<1>2. /\ version \in Nat /\ version' = e /\ commands' = Append(commands, InsertSnapshot(o, e))
      /\ UNCHANGED <<rows, tx, cache, item, unremoved>>
  BY <1>1, DataTypes DEF QueueSnapshot, tableVars
<1>3. \A d \in Nat : Unstored(d) => d # e /\ Unstored(d)'
  BY <1>1, <1>2 DEF Unstored
<1>4. Unstored(e)' /\ \A v \in Writers : Open(v)' => tx'[v].row.data # e
  BY <1>1, <1>2, DataTypes DEF DataInv, VersionsTaken, Unstored, Open
<1>5. VersionsTaken'
  BY <1>1, <1>2, DataTypes DEF DataInv, VersionsTaken, Open
<1>6. /\ Len(commands) \in Nat
      /\ \A i \in Waiting' : i # Len(commands) + 1 => i \in Waiting /\ commands'[i] = commands[i]
      /\ commands'[Len(commands) + 1].data = e
  <2>1. commands \in Seq(Command) /\ InsertSnapshot(o, e) \in Command
    <3>1. e \in 1 .. MaxVersion
      BY <1>1, <1>2, SnapshotAssumption DEF QueueSnapshot
    <3>2. QED
      BY <3>1 DEF TypeOK, Command
  <2>2. /\ Len(commands') = Len(commands) + 1 /\ Len(commands) \in Nat
        /\ \A i \in 1 .. Len(commands) : commands'[i] = commands[i]
        /\ commands'[Len(commands) + 1] = InsertSnapshot(o, e)
    BY <1>2, <2>1, AppendProperties
  <2>3. commands'[Len(commands) + 1].data = e
    BY <2>2 DEF InsertSnapshot
  <2>4. QED
    BY <2>2, <2>3 DEF Waiting
<1>7. QueueNew'
  <2>1. ASSUME NEW i \in Waiting', i # Len(commands) + 1
        PROVE  /\ Unstored(commands[i].data)'
               /\ \A v \in Writers : Open(v)' => tx'[v].row.data # commands'[i].data
               /\ commands'[i].data # e
    <3>1. /\ i \in Waiting /\ commands'[i] = commands[i] /\ commands[i].data \in Nat
          /\ Unstored(commands[i].data)
      BY <1>6, <2>1, DataTypes DEF DataInv, QueueNew
    <3>2. Unstored(commands[i].data)' /\ commands'[i].data # e
      BY <1>3, <3>1 DEF Unstored
    <3>3. QED
      BY <1>2, <3>1, <3>2 DEF DataInv, QueueNew, Open
  <2>2. \A i, j \in Waiting' : commands'[j].data = commands'[i].data => j = i
    BY <1>6, <2>1 DEF DataInv, QueueNew
  <2>3. ASSUME NEW i \in Waiting'
        PROVE  /\ Unstored(commands[i].data)'
               /\ \A v \in Writers : Open(v)' => tx'[v].row.data # commands'[i].data
    BY <1>4, <1>6, <2>1 DEF Unstored
  <2>4. QED
    BY <2>2, <2>3 DEF QueueNew
<1>8. RequestsNew'
  <2>1. ASSUME NEW w \in Requests, Open(w)'
        PROVE  Unstored(tx[w].row.data)' /\ Unwritten(tx[w].row.data, w)'
    <3>1. w \in Writers /\ Open(w) /\ tx'[w] = tx[w] /\ tx[w].row.data \in Nat
      BY <1>2, <2>1, DataTypes DEF Open
    <3>2. Unstored(tx[w].row.data) /\ Unwritten(tx[w].row.data, w)
      BY <3>1 DEF DataInv, RequestsNew
    <3>3. QED
      BY <1>2, <1>3, <3>1, <3>2 DEF Unstored, Unwritten, Open
  <2>2. QED
    BY <2>1 DEF RequestsNew
<1>9. RemovedNext' /\ RunnerNew' /\ WrittenOnce'
  BY <1>2 DEF DataInv, RemovedNext, RunnerNew, WrittenOnce, Open
<1>10. QED
  BY <1>5, <1>7, <1>8, <1>9 DEF DataInv

(* Redis takes the data at the head of the channel, or does not.           *)
LEMMA DataInserted ==
  ASSUME TypeOK, Working, DataInv, HandleInsert
  PROVE  DataInv'
<1>1. PICK o \in Objects, d \in Nat : o = Head(commands).oid /\ d = Head(commands).data
  BY InsertCommand DEF HandleInsert
<1>2. /\ item = None /\ commands # <<>> /\ commands' = Tail(commands)
      /\ UNCHANGED <<rows, tx, version, item, unremoved>>
      /\ cache' = [cache EXCEPT ![o] = d] \/ UNCHANGED cache
  BY <1>1 DEF HandleInsert, NextCommand, tableVars
<1>3. CASE UNCHANGED cache
  BY <1>2, <1>3, DataQueue
<1>4. CASE cache' = [cache EXCEPT ![o] = d]
  <2>1. cache'[o] = d /\ \A p \in Objects \ {o} : cache'[p] = cache[p]
    BY <1>4 DEF TypeOK
  <2>2. /\ 1 \in Waiting /\ commands[1].data = d
        /\ \A i \in Waiting' : i \in Nat /\ i >= 1 /\ i + 1 \in Waiting
                               /\ commands'[i] = commands[i + 1]
    <3>1. commands \in Seq(Command)
      BY DEF TypeOK
    <3>2. /\ Len(commands') = Len(commands) - 1 /\ Len(commands) \in Nat \ {0}
          /\ \A i \in 1 .. Len(commands') : commands'[i] = commands[i + 1]
          /\ Head(commands) = commands[1]
      BY <1>2, <3>1, HeadTailProperties, EmptySeq
    <3>3. Head(commands).type = "insert"
      BY DEF HandleInsert, NextCommand
    <3>4. QED
      BY <1>1, <3>2, <3>3 DEF Waiting
  <2>3. /\ Unstored(d) /\ \A v \in Writers : Open(v) => tx[v].row.data # d
        /\ \A j \in Waiting : commands[j].data = d => j = 1
    BY <2>2 DEF DataInv, QueueNew
  <2>4. \A e \in Nat : Unstored(e) /\ e # d => Unstored(e)'
    BY <1>2, <2>1 DEF Unstored
  <2>5. ~Open(Runner)
    BY <1>2 DEF Working, Open
  <2>6. VersionsTaken'
    BY <1>2, <2>1, <2>3 DEF DataInv, VersionsTaken, Unstored, Open
  <2>7. QueueNew'
    <3>1. ASSUME NEW i \in Waiting'
          PROVE  /\ Unstored(commands[i].data)'
                 /\ \A v \in Writers : Open(v)' => tx'[v].row.data # commands'[i].data
      <4>1. PICK j \in Waiting : j = i + 1 /\ j # 1 /\ commands'[i] = commands[j]
        BY <2>2
      <4>2. /\ Unstored(commands[j].data) /\ commands[j].data # d /\ commands[j].data \in Nat
            /\ \A v \in Writers : Open(v) => tx[v].row.data # commands[j].data
        BY <2>3, <4>1, DataTypes DEF DataInv, QueueNew
      <4>3. Unstored(commands[i].data)'
        BY <2>4, <4>1, <4>2 DEF Unstored
      <4>4. QED
        BY <1>2, <4>1, <4>2, <4>3 DEF Open
    <3>2. QED
      BY <2>2, <3>1, QueueNewKept DEF DataInv
  <2>8. RequestsNew'
    <3>1. ASSUME NEW w \in Requests, Open(w)'
          PROVE  Unstored(tx[w].row.data)' /\ Unwritten(tx[w].row.data, w)'
      <4>1. w \in Writers /\ Open(w) /\ tx'[w] = tx[w] /\ tx[w].row.data \in Nat
        BY <1>2, <3>1, DataTypes DEF Open
      <4>2. Unstored(tx[w].row.data) /\ Unwritten(tx[w].row.data, w) /\ tx[w].row.data # d
        BY <2>3, <4>1 DEF DataInv, RequestsNew
      <4>3. QED
        BY <1>2, <2>4, <4>1, <4>2 DEF Unstored, Unwritten, Open
    <3>2. QED
      BY <3>1 DEF RequestsNew
  <2>9. RemovedNext' /\ RunnerNew' /\ WrittenOnce'
    BY <1>2, <2>1, <2>3, <2>5 DEF DataInv, RemovedNext, RunnerNew, WrittenOnce, Unstored, Open
  <2>10. QED
    BY <2>6, <2>7, <2>8, <2>9 DEF DataInv
<1>5. QED
  BY <1>2, <1>3, <1>4

(* A commit puts data into the table that no other transaction writes.     *)
LEMMA DataCommits ==
  ASSUME TypeOK, Working, DataInv, NEW w \in Writers, Commit(w)
  PROVE  DataInv'
<1>1. PICK o \in Objects, d \in Nat : o = tx[w].oid /\ d = tx[w].row.data
  BY TxSteps, DataTypes
<1>2. /\ Open(w) /\ tx'[w] = Idle /\ \A v \in Writers \ {w} : tx'[v] = tx[v]
      /\ \A r \in rows'[o] : r \in rows[o] \/ r = tx[w].row
      /\ \A p \in Objects \ {o} : rows'[p] = rows[p]
      /\ UNCHANGED <<commands, cache, version, item, unremoved>>
  BY <1>1, TxSteps DEF Visible, Commit, queueVars
<1>3. Waiting' = Waiting /\ d <= version
  BY <1>1, <1>2 DEF Waiting, DataInv, VersionsTaken
<1>4. \A e \in Nat : Unstored(e) /\ e # d => Unstored(e)'
  BY <1>1, <1>2 DEF Unstored
<1>5. \A v \in Writers : Open(v)' => v # w /\ Open(v) /\ tx'[v] = tx[v]
  BY <1>2 DEF Open
<1>6. VersionsTaken'
  BY <1>1, <1>2, <1>3, <1>5 DEF DataInv, VersionsTaken
<1>7. QueueNew'
  <2>1. ASSUME NEW i \in Waiting
        PROVE  /\ Unstored(commands[i].data)'
               /\ \A v \in Writers : Open(v)' => tx'[v].row.data # commands[i].data
    <3>1. /\ commands[i].data \in Nat /\ Unstored(commands[i].data) /\ commands[i].data # d
          /\ \A v \in Writers : Open(v) => tx[v].row.data # commands[i].data
      BY <1>1, <1>2, DataTypes DEF DataInv, QueueNew
    <3>2. Unstored(commands[i].data)'
      BY <1>2, <1>4, <3>1 DEF Unstored
    <3>3. QED
      BY <1>5, <3>1, <3>2
  <2>2. QED
    BY <1>2, <1>3, <2>1 DEF DataInv, QueueNew
<1>8. RequestsNew'
  <2>1. ASSUME NEW v \in Requests, Open(v)'
        PROVE  Unstored(tx[v].row.data)' /\ Unwritten(tx[v].row.data, v)'
    <3>1. v \in Writers /\ v # w /\ Open(v) /\ tx'[v] = tx[v] /\ tx[v].row.data \in Nat
      BY <1>5, <2>1, DataTypes
    <3>2. Unstored(tx[v].row.data) /\ Unwritten(tx[v].row.data, v)
      BY <3>1 DEF DataInv, RequestsNew
    <3>3. tx[v].row.data # d
      BY <1>1, <1>2, <3>1, <3>2 DEF Unwritten
    <3>4. QED
      BY <1>4, <1>5, <3>1, <3>2, <3>3 DEF Unstored, Unwritten
  <2>2. QED
    BY <2>1 DEF RequestsNew
<1>9. CASE w = Runner
  <2>1. item # None /\ item.oid = o
    BY <1>1, <1>2, <1>9 DEF Working, Open
  <2>2. RemovedNext'
    BY <1>2, <1>9, <2>1 DEF DataInv, RemovedNext, Open
  <2>3. RunnerNew'
    BY <1>5, <1>9 DEF RunnerNew
  <2>4. o \notin unremoved => \A r \in rows[o] : r.data # d
    BY <1>1, <1>2, <1>9 DEF DataInv, RunnerNew
  <2>5. WrittenOnce'
    BY <1>1, <1>2, <2>4 DEF DataInv, WrittenOnce
  <2>6. QED
    BY <1>6, <1>7, <1>8, <2>2, <2>3, <2>5 DEF DataInv
<1>10. CASE w # Runner
  <2>1. Unstored(d) /\ Unwritten(d, w) /\ Runner \in Writers \ {w}
    BY <1>1, <1>2, <1>10, DataTypes DEF DataInv, RequestsNew, Writers
  <2>2. RemovedNext'
    BY <1>1, <1>2, <2>1 DEF DataInv, RemovedNext, Unstored, Open
  <2>3. RunnerNew'
    <3>1. ASSUME Open(Runner), tx[Runner].oid \notin unremoved
          PROVE  \A r \in rows'[tx[Runner].oid] : r.data # tx[Runner].row.data
      <4>1. tx[Runner].oid \in Objects /\ tx[Runner].row.data # d
        BY <2>1, <3>1, DataTypes DEF Unwritten
      <4>2. QED
        BY <1>1, <1>2, <3>1, <4>1 DEF DataInv, RunnerNew
    <3>2. QED
      BY <1>2, <2>1, <3>1 DEF RunnerNew, Open
  <2>4. WrittenOnce'
    BY <1>1, <1>2, <2>1 DEF DataInv, WrittenOnce, Unstored
  <2>5. QED
    BY <1>6, <1>7, <1>8, <2>2, <2>3, <2>4 DEF DataInv
<1>11. QED
  BY <1>9, <1>10

(* Every step keeps the data apart.                                        *)
LEMMA DataStep == SnapshotInv /\ DataInv /\ [Next]_vars => DataInv'
<1> SUFFICES ASSUME SnapshotInv, DataInv, [Next]_vars PROVE DataInv'
  OBVIOUS
<1>0. /\ TypeOK /\ Working /\ RemovedNext /\ Runner \in Writers
      /\ \A w \in Requests : w \in Writers /\ w # Runner
      /\ \A o \in Objects : \A r \in rows[o] : r.data # None
  BY DataTypes, SnapshotAssumption DEF SnapshotInv, DataInv, Writers
<1>1. ASSUME NEW o \in Objects, QueueSnapshot(o) PROVE DataInv'
  BY <1>0, <1>1, DataQueued
<1>2. CASE SendTick
  BY <1>0, <1>2, DataQueue DEF SendTick, tableVars
<1>3. CASE HandleInsert
  BY <1>0, <1>3, DataInserted
<1>4. CASE TickNothing \/ TickLater
  BY <1>0, <1>4, DataQueue DEF TickNothing, TickLater, NextCommand, tableVars
<1>5. CASE TickWrite
  BY <1>0, <1>5, DataTick
<1>6. ASSUME NEW w \in Requests, NEW o \in Objects, CreateSnapshot(w, o) PROVE DataInv'
  BY <1>0, <1>6, DataBegins
<1>7. ASSUME NEW w \in Writers, StartDelete(w) \/ FinishDelete(w) PROVE DataInv'
  <2>1. /\ Open(w) /\ rows' = rows /\ tx'[w].oid = tx[w].oid /\ tx'[w].row = tx[w].row
        /\ \A v \in Writers \ {w} : tx'[v] = tx[v]
    BY <1>0, <1>7, TxSteps
  <2>2. UNCHANGED <<commands, cache, item, unremoved, version>>
    BY <1>7 DEF StartDelete, FinishDelete, queueVars
  <2>3. \A v \in Writers : Open(v)' =>
          Open(v) /\ tx'[v].row = tx[v].row /\ tx'[v].oid = tx[v].oid
    BY <2>1 DEF Open
  <2>4. RemovedNext'
    BY <1>0, <2>1, <2>2, <2>3 DEF RemovedNext
  <2>5. QED
    BY <1>0, <2>1, <2>2, <2>3, <2>4, DataLess
<1>8. ASSUME NEW w \in Writers, Commit(w) PROVE DataInv'
  BY <1>0, <1>8, DataCommits
<1>9. ASSUME NEW w \in Writers, Abort(w) PROVE DataInv'
  <2>1. Open(w) /\ tx'[w] = Idle /\ \A v \in Writers \ {w} : tx'[v] = tx[v]
    BY <1>0, <1>9, TxSteps DEF Abort, Fails, Open
  <2>2. UNCHANGED <<commands, cache, unremoved, version, rows>>
    BY <1>9 DEF Abort
  <2>3. \A v \in Writers : Open(v)' =>
          Open(v) /\ tx'[v].row = tx[v].row /\ tx'[v].oid = tx[v].oid
    BY <2>1 DEF Open
  <2>4. RemovedNext'
    <3>1. CASE w = Runner
      BY <1>0, <2>1, <2>2, <3>1 DEF RemovedNext
    <3>2. CASE w # Runner
      BY <1>0, <1>9, <2>2, <2>3, <3>2 DEF RemovedNext, Abort
    <3>3. QED
      BY <3>1, <3>2
  <2>5. QED
    BY <1>0, <2>2, <2>3, <2>4, DataLess
<1>10. CASE FinishTick
  <2>1. /\ item # None /\ UNCHANGED <<commands, rows, tx, version>>
        /\ \/ cache' = [cache EXCEPT ![item.oid] = None] /\ UNCHANGED unremoved
           \/ UNCHANGED cache /\ unremoved' = unremoved \cup {item.oid}
    BY <1>10 DEF FinishTick, tableVars
  <2>2. \A o \in Objects : cache'[o] \in {None, cache[o]}
    BY <1>0, <2>1 DEF TypeOK
  <2>3. \A o \in Objects \ unremoved' : cache'[o] = None \/ (o # item.oid /\ cache'[o] = cache[o])
    BY <1>0, <2>1 DEF TypeOK
  <2>4. RemovedNext'
    BY <1>0, <2>1, <2>3 DEF RemovedNext
  <2>5. QED
    BY <1>0, <2>1, <2>2, <2>4, DataLess DEF Open
<1>11. ASSUME NEW o \in Objects, Expire(o) PROVE DataInv'
  <2>1. /\ cache' = [cache EXCEPT ![o] = None]
        /\ UNCHANGED <<commands, item, unremoved, rows, tx, version>>
    BY <1>11 DEF Expire, tableVars
  <2>2. \A p \in Objects : cache'[p] \in {None, cache[p]}
    BY <1>0, <2>1 DEF TypeOK
  <2>3. RemovedNext'
    BY <1>0, <2>1, <2>2 DEF RemovedNext, Open
  <2>4. QED
    BY <1>0, <2>1, <2>2, <2>3, DataLess DEF Open
<1>12. CASE UNCHANGED vars
  BY <1>0, <1>12, DataQueue DEF vars, queueVars, tableVars
<1>13. QED
  BY <1>0, <1>1, <1>2, <1>3, <1>4, <1>5, <1>6, <1>7, <1>8, <1>9, <1>10, <1>11, <1>12
     DEF Next, RunnerStep, HandleTick, Write

(* Several items of one object, pushed back or doubled, never lead to two  *)
(* rows of the same data, unless redis refused to remove it                *)
(* (process_next_batch).                                                   *)
THEOREM NeverWrittenTwice == Spec => []WrittenOnce
<1>1. Init => DataInv
  <2> SUFFICES ASSUME Init PROVE DataInv
    OBVIOUS
  <2>1. Waiting = {}
    BY EmptySeq DEF Init, Waiting
  <2>2. Runner \in Writers /\ \A w \in Requests : w \in Writers
    BY DEF Writers
  <2>3. \A w \in Writers : ~Open(w)
    BY DEF Init, Open
  <2>4. QED
    BY <2>1, <2>2, <2>3 DEF Init, DataInv, VersionsTaken, QueueNew, RequestsNew, RemovedNext,
       RunnerNew, WrittenOnce
<1>2. DataInv => WrittenOnce
  BY DEF DataInv
<1>3. QED
  BY <1>1, <1>2, DataStep, Invariance, PTL DEF Spec
=============================================================================
