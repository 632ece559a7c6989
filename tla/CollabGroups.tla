---------------------------- MODULE CollabGroups ----------------------------
(***************************************************************************)
(* The life of the group of one collab and of its document: the runner     *)
(* creates the group on the first init sync and its storage plugin loads   *)
(* the document (lib/realtime/src/server/collaborate/plugin.rs); clients   *)
(* join, edit and leave; the tick removes a group that nobody subscribes   *)
(* to, and the plugin writes its document in a task that nobody waits for. *)
(*                                                                         *)
(* The tick then forgets the sender of the object's runner, which goes on  *)
(* with the commands it has; the next message starts another runner, and   *)
(* each may load the document and enter a group (RealtimeServer).          *)
(*                                                                         *)
(* A document is the set of the updates in it.  The messages between a     *)
(* client and its group are those of CollabSync and CollabBroadcast; here  *)
(* a join, an update and a broadcast are a step each.                      *)
(***************************************************************************)
EXTENDS Naturals, Sequences

CONSTANTS
  Users,        \* who opens the collab
  Editors,      \* bound on those among them who edit it
  Updates,      \* the updates they make
  Original,     \* those stored at the start, if the collab exists
  Owners,       \* the users who may create a collab in the workspace
  Readers,      \* the users who may read this one whether they may write it or not
  Writers,      \* the users who may write this one
  Restorable,   \* whether the collab is of a type that is restored from snapshots
  MaxGroups,    \* bound on the groups created
  MaxRunners,   \* bound on the runners at a time
  MaxCommands,  \* bound on the commands that wait for a runner
  MaxFaults     \* bound on the failures

ASSUME GroupsAssumption ==
  /\ Users # {} /\ Original \subseteq Updates /\ Owners \subseteq Users
  /\ Editors \subseteq Users /\ Readers \subseteq Users /\ Writers \subseteq Users
  /\ Restorable \in BOOLEAN
  /\ MaxGroups \in Nat /\ MaxRunners \in Nat \ {0} /\ MaxCommands \in Nat /\ MaxFaults \in Nat

VARIABLES
  at,        \* "away", "asking" (has sent an init sync), "in" (a subscriber) or
             \* "dropped" (was one of a group that was replaced)
  local,     \* the document of each client
  commands,  \* the init syncs in the channel of each runner
  runner,    \* what each runner is doing, for whom, and what it has read
  retiring,  \* whether the tick has yet to forget the sender of the first runner
  open,      \* whether group_by_object_id has the group
  doc,       \* the document of the group
  creator,   \* the uid that its storage plugin reads and writes with
  flushes,   \* the writing tasks that have not ended
  row,       \* the row of the collab: "none", "ok", or "bad" if it does not decode
  stored,    \* the document in it
  snapshot,  \* the document of the latest snapshot
  versions,  \* the documents that were ever given to the storage
  writers,   \* the users whose policies allow them to write the collab
  created,   \* the number of groups so far
  faults,    \* the number of failures so far
  acked,     \* history: the updates that were acknowledged
  excused    \* history: those among them that an event named below may have lost

clientVars == <<at, local>>
groupVars == <<open, doc, creator>>
storageVars == <<row, stored, snapshot, versions, writers>>
vars == <<clientVars, commands, runner, retiring, groupVars, flushes, storageVars, created,
          faults, acked, excused>>

Runners == 1 .. MaxRunners
Runner == [step : {"idle", "load", "insert", "enter"}, user : Users, doc : SUBSET Updates]
Flush == [doc : SUBSET Updates, uid : Users, number : 0 .. MaxGroups, overtaken : BOOLEAN]
Nobody == CHOOSE u \in Users : TRUE
AtRest == [step |-> "idle", user |-> Nobody, doc |-> {}]
Idle(r) == runner[r].step = "idle"
HasRead(r) == runner[r].step \in {"insert", "enter"}
Subscribers == {u \in Users : at[u] = "in"}

-----------------------------------------------------------------------------
(* What the plugin would read: a document that does not decode is replaced *)
(* by the latest snapshot, if its type has a check for valid snapshots.    *)
get_latest_snapshot == IF Restorable THEN snapshot ELSE {}
Readable == CASE row = "ok" -> stored
              [] row = "bad" -> get_latest_snapshot
              [] OTHER -> {}

(* Whatever the server could still give to a client.                       *)
Kept == (IF open THEN doc ELSE {}) \cup (UNION {f.doc : f \in flushes}) \cup Readable

(* enforce_read_collab, and can_read_collab of the client stream.          *)
can_read(u) == u \in Readers \cup writers

(* insert_or_update_collab for uid; who creates the row is given access to *)
(* it before being refused or not (CollabStorage).                         *)
MayStore(uid) == IF row = "none" THEN uid \in Owners ELSE uid \in writers
Policies(uid) == IF row = "none" THEN writers \cup {uid} ELSE writers
Store(uid, content) ==
  /\ writers' = Policies(uid)
  /\ row' = "ok" /\ stored' = content
  /\ versions' = versions \cup {content}
  /\ UNCHANGED snapshot
Refuse(uid) ==
  /\ writers' = Policies(uid)
  /\ UNCHANGED <<row, stored, snapshot, versions>>

Fault == faults < MaxFaults /\ faults' = faults + 1

(* What is left of a document that an event drops.                         *)
Excuse(content) == excused' = excused \cup (content \ Readable)

-----------------------------------------------------------------------------
(* A client that was dropped is not told, but may ask again for its own    *)
(* reasons.                                                                *)
Open(u) ==
  /\ at[u] \in {"away", "dropped"} /\ Len(commands[1]) < MaxCommands
  /\ at' = [at EXCEPT ![u] = "asking"]
  /\ commands' = [commands EXCEPT ![1] = Append(@, u)]
  /\ UNCHANGED <<local, runner, retiring, groupVars, flushes, storageVars, created, faults,
                 acked, excused>>

(* The websocket closes; a command that waits is not taken back.           *)
Leave(u) ==
  /\ at[u] # "away"
  /\ at' = [at EXCEPT ![u] = "away"]
  /\ UNCHANGED <<local, commands, runner, retiring, groupVars, flushes, storageVars, created,
                 faults, acked, excused>>

(* On the client, with a connection or without.                            *)
Edit(u, e) ==
  /\ u \in Editors /\ \A v \in Users : e \notin local[v]
  /\ e \notin Original
  /\ local' = [local EXCEPT ![u] = @ \cup {e}]
  /\ UNCHANGED <<at, commands, runner, retiring, groupVars, flushes, storageVars, created,
                 faults, acked, excused>>

(* The check of the client stream; can_write_collab asks the policies.     *)
can_write(u) == u \in writers

(* An update, or part of the answer to the server's sync step 1; a message *)
(* of a user who may not write is dropped by the client stream.            *)
ApplyUpdate(u, e) ==
  /\ at[u] = "in" /\ can_write(u)
  /\ e \in local[u] \ doc
  /\ doc' = doc \cup {e}
  /\ acked' = acked \cup {e}
  /\ UNCHANGED <<clientVars, commands, runner, retiring, open, creator, flushes, storageVars,
                 created, faults, excused>>

Broadcast(u) ==
  /\ at[u] = "in" /\ can_read(u) /\ ~(doc \subseteq local[u])
  /\ local' = [local EXCEPT ![u] = @ \cup doc]
  /\ UNCHANGED <<at, commands, runner, retiring, groupVars, flushes, storageVars, created,
                 faults, acked, excused>>

(* A message other than an init sync subscribes a dropped client to the    *)
(* group there is; nothing is sent to it.                                  *)
Rejoin(u) ==
  /\ at[u] = "dropped" /\ open
  /\ at' = [at EXCEPT ![u] = "in"]
  /\ UNCHANGED <<local, commands, runner, retiring, groupVars, flushes, storageVars, created,
                 faults, acked, excused>>

-----------------------------------------------------------------------------
(* GroupCommandRunner::handle_collab_message.                              *)
Takes(r) ==
  /\ Idle(r) /\ commands[r] # <<>>
  /\ commands' = [commands EXCEPT ![r] = Tail(@)]

(* The user has no client stream any more.                                 *)
HandleUnconnected(r) ==
  /\ Takes(r) /\ at[Head(commands[r])] = "away"
  /\ UNCHANGED <<clientVars, runner, retiring, groupVars, flushes, storageVars, created,
                 faults, acked, excused>>

(* SubscribeGroup; the reply to the init sync has the document, and is not *)
(* sent to who may not read.                                               *)
Learn(u, content) ==
  local' = IF can_read(u) THEN [local EXCEPT ![u] = @ \cup content] ELSE local

HandleInGroup(r) ==
  LET user == Head(commands[r])
  IN  /\ Takes(r) /\ at[user] # "away" /\ open
      /\ at' = [at EXCEPT ![user] = "in"]
      /\ Learn(user, doc)
      /\ UNCHANGED <<runner, retiring, groupVars, flushes, storageVars, created, faults,
                     acked, excused>>

create_group(r) ==
  /\ Takes(r) /\ at[Head(commands[r])] # "away" /\ ~open /\ created < MaxGroups
  /\ runner' = [runner EXCEPT ![r] = [step |-> "load", user |-> Head(commands[r]), doc |-> {}]]
  /\ created' = created + 1
  /\ UNCHANGED <<clientVars, retiring, groupVars, flushes, storageVars, faults, acked, excused>>

-----------------------------------------------------------------------------
(* CollabStoragePlugin::init.  What was read is entered as a group later.  *)
Loads(r, content) ==
  /\ runner[r].step = "load"
  /\ runner' = [runner EXCEPT ![r].step = "enter", ![r].doc = content]

(* The flush of an earlier group is under way when the plugin reads: what  *)
(* it has yet to write is not in the new document.                         *)
Overtake == flushes' = {[f EXCEPT !.overtaken = TRUE] : f \in flushes}
ExcuseFlushes == Excuse(UNION {f.doc : f \in flushes})

(* A snapshot of what was read may be queued; it is taken to be in the     *)
(* table at once, or never (SnapshotControl).                              *)
InitLoads(r) ==
  /\ Loads(r, stored)
  /\ row = "ok" /\ can_read(runner[r].user)
  /\ snapshot' \in {snapshot, stored}
  /\ Overtake /\ ExcuseFlushes
  /\ UNCHANGED <<clientVars, commands, retiring, groupVars, row, stored, versions, writers,
                 created, faults, acked>>

(* redis is asked first, and may have what was replaced or rolled back, or  *)
(* is not yet committed (CollabStorage).                                   *)
InitLoadsCached(r) ==
  /\ Fault /\ row # "none" /\ can_read(runner[r].user)
  /\ \E content \in versions :
       Loads(r, content) /\ snapshot' \in {snapshot, content}
  /\ Overtake /\ excused' = excused \cup Kept
  /\ UNCHANGED <<clientVars, commands, retiring, groupVars, row, stored, versions, writers,
                 created, acked>>

InitRestores(r) ==
  /\ Loads(r, get_latest_snapshot)
  /\ row = "bad" /\ can_read(runner[r].user)
  /\ Overtake /\ ExcuseFlushes
  /\ UNCHANGED <<clientVars, commands, retiring, groupVars, storageVars, created, faults, acked>>

(* Any other error is logged, and the group starts with nothing: that the  *)
(* user who asked may not read the collab, or a failure.                   *)
InitFails(r) ==
  /\ Loads(r, {})
  /\ \/ row # "none" /\ ~can_read(runner[r].user) /\ UNCHANGED faults
     \/ Fault
  /\ Overtake /\ excused' = excused \cup Kept
  /\ UNCHANGED <<clientVars, commands, retiring, groupVars, storageVars, created, acked>>

InitFindsNone(r) ==
  /\ runner[r].step = "load" /\ row = "none"
  /\ runner' = [runner EXCEPT ![r].step = "insert"]
  /\ Overtake /\ ExcuseFlushes
  /\ UNCHANGED <<clientVars, commands, retiring, groupVars, storageVars, created, faults, acked>>

(* A failure to insert is logged.  A flush, or another runner, may have    *)
(* made the row meanwhile.                                                 *)
insert_new_collab(r) ==
  LET uid == runner[r].user
  IN  /\ runner[r].step = "insert"
      /\ runner' = [runner EXCEPT ![r].step = "enter"]
      /\ \/ MayStore(uid) /\ Store(uid, {}) /\ UNCHANGED faults
         \/ ~MayStore(uid) /\ Refuse(uid) /\ UNCHANGED faults
         \/ Fault /\ UNCHANGED storageVars
      /\ UNCHANGED <<clientVars, commands, retiring, groupVars, flushes, created, acked, excused>>

(* Mutant of InsertGroup: the subscribers of the group that is replaced    *)
(* are those of the new one.                                               *)
InsertGroupKeepsSubscribers(r) ==
  LET user == runner[r].user
  IN  /\ runner[r].step = "enter"
      /\ runner' = [runner EXCEPT ![r] = AtRest]
      /\ open' = TRUE /\ doc' = runner[r].doc /\ creator' = user
      /\ at' = IF at[user] = "away" THEN at ELSE [at EXCEPT ![user] = "in"]
      /\ IF at[user] = "away" THEN UNCHANGED local ELSE Learn(user, runner[r].doc)
      /\ excused' = IF open THEN excused \cup (doc \ runner[r].doc) ELSE excused
      /\ UNCHANGED <<commands, retiring, flushes, storageVars, created, faults, acked>>

(* The group is entered in group_by_object_id, with its first subscriber   *)
(* unless that user has left meanwhile.  A group that another runner has   *)
(* entered since is replaced: nobody writes its document, and nobody tells *)
(* its subscribers.                                                        *)
InsertGroup(r) ==
  LET user == runner[r].user
      comes == at[user] # "away"
  IN  /\ runner[r].step = "enter"
      /\ runner' = [runner EXCEPT ![r] = AtRest]
      /\ open' = TRUE /\ doc' = runner[r].doc /\ creator' = user
      /\ at' = [u \in Users |-> CASE u = user /\ comes -> "in"
                                  [] at[u] = "in" -> "dropped"
                                  [] OTHER -> at[u]]
      /\ IF comes THEN Learn(user, runner[r].doc) ELSE UNCHANGED local
      /\ excused' = IF open THEN excused \cup (doc \ runner[r].doc) ELSE excused
      /\ UNCHANGED <<commands, retiring, flushes, storageVars, created, faults, acked>>

-----------------------------------------------------------------------------
(* The tick removes the group and its plugin starts a task that writes the *)
(* document.  latest_collab_md5 is that of an earlier flush of the same    *)
(* plugin, and there is none.                                              *)
flush ==
  [doc |-> doc, uid |-> creator, number |-> created, overtaken |-> \E r \in Runners : HasRead(r)]

(* Mutant of RemoveInactiveGroup: the document is not written.             *)
RemoveUnflushed ==
  /\ open /\ Subscribers = {} /\ ~retiring
  /\ open' = FALSE /\ doc' = {} /\ creator' = Nobody /\ retiring' = TRUE
  /\ UNCHANGED <<clientVars, commands, runner, flushes, storageVars, created, faults,
                 acked, excused>>

(* Mutant of RemoveInactiveGroup: a group in use may be removed.           *)
RemoveUsedGroup ==
  /\ open /\ ~retiring
  /\ open' = FALSE /\ doc' = {} /\ creator' = Nobody /\ retiring' = TRUE
  /\ flushes' = flushes \cup {flush}
  /\ versions' = versions \cup {doc}
  /\ IF flush.overtaken THEN Excuse(doc) ELSE UNCHANGED excused
  /\ UNCHANGED <<clientVars, commands, runner, row, stored, snapshot, writers, created,
                 faults, acked>>

(* A runner that has read by now will enter a group without this document. *)
RemoveInactiveGroup ==
  /\ open /\ Subscribers = {} /\ ~retiring
  /\ open' = FALSE /\ doc' = {} /\ creator' = Nobody /\ retiring' = TRUE
  /\ flushes' = flushes \cup {flush}
  /\ versions' = versions \cup {doc}
  /\ IF flush.overtaken THEN Excuse(doc) ELSE UNCHANGED excused
  /\ UNCHANGED <<clientVars, commands, runner, row, stored, snapshot, writers, created,
                 faults, acked>>

(* RealtimeServer's loop then forgets the sender.  Its runner goes on with *)
(* the commands it has, under another number; the first runner is the one  *)
(* of group_sender_by_object_id, which the next command starts.            *)
ForgetSender ==
  /\ retiring /\ retiring' = FALSE
  /\ \E r \in Runners :
       /\ Idle(r) /\ commands[r] = <<>>
       /\ commands' = [commands EXCEPT ![1] = <<>>, ![r] = commands[1]]
       /\ runner' = [runner EXCEPT ![1] = AtRest, ![r] = runner[1]]
  /\ UNCHANGED <<clientVars, groupVars, flushes, storageVars, created, faults, acked, excused>>

(* Mutant of FlushWrites: override_if_exist, which is false, is heeded.    *)
FlushIfAbsent(f) ==
  /\ MayStore(f.uid)
  /\ IF row = "none" THEN Store(f.uid, f.doc) ELSE UNCHANGED storageVars
  /\ flushes' = flushes \ {f}
  /\ excused' = IF f.overtaken THEN excused \cup (Readable \ f.doc) ELSE excused
  /\ UNCHANGED <<clientVars, commands, runner, retiring, groupVars, created, faults, acked>>

(* The task of a group that was overtaken may replace a later document.    *)
FlushWrites(f) ==
  /\ MayStore(f.uid)
  /\ Store(f.uid, f.doc)
  /\ flushes' = flushes \ {f}
  /\ excused' = IF f.overtaken THEN excused \cup (Readable \ f.doc) ELSE excused
  /\ UNCHANGED <<clientVars, commands, runner, retiring, groupVars, created, faults, acked>>

(* The plugin writes as the user whose init sync created the group: one    *)
(* who may not write makes the flush of everybody's updates fail.          *)
FlushRefused(f) ==
  /\ ~MayStore(f.uid)
  /\ Refuse(f.uid)
  /\ flushes' = flushes \ {f}
  /\ Excuse(f.doc)
  /\ UNCHANGED <<clientVars, commands, runner, retiring, groupVars, created, faults, acked>>

FlushFails(f) ==
  /\ Fault
  /\ flushes' = flushes \ {f}
  /\ Excuse(f.doc)
  /\ UNCHANGED <<clientVars, commands, runner, retiring, groupVars, storageVars, created, acked>>

(* The data of the row does not decode any more.                           *)
Corrupt ==
  /\ Fault /\ row = "ok"
  /\ row' = "bad"
  /\ excused' = excused \cup (stored \ get_latest_snapshot)
  /\ UNCHANGED <<clientVars, commands, runner, retiring, groupVars, flushes, stored, snapshot, versions,
                 writers, created, acked>>

(* The server stops.                                                       *)
Crash ==
  /\ Fault
  /\ at' = [u \in Users |-> "away"]
  /\ commands' = [r \in Runners |-> <<>>] /\ runner' = [r \in Runners |-> AtRest]
  /\ retiring' = FALSE
  /\ open' = FALSE /\ doc' = {} /\ creator' = Nobody /\ flushes' = {}
  /\ Excuse(Kept)
  /\ UNCHANGED <<local, storageVars, created, acked>>

-----------------------------------------------------------------------------
Init ==
  /\ at = [u \in Users |-> "away"]
  /\ local = [u \in Users |-> {}]
  /\ commands = [r \in Runners |-> <<>>]
  /\ runner = [r \in Runners |-> AtRest]
  /\ retiring = FALSE
  /\ open = FALSE /\ doc = {} /\ creator = Nobody
  /\ flushes = {}
  /\ \/ row = "none" /\ stored = {} /\ acked = {} /\ versions = {}
     \/ row = "ok" /\ stored = Original /\ acked = Original /\ versions = {Original}
  /\ snapshot = {}
  /\ writers = Writers
  /\ created = 0 /\ faults = 0
  /\ excused = {}

HandleCommand(r) == HandleUnconnected(r) \/ HandleInGroup(r) \/ create_group(r)
Initialize(r) ==
  \/ InitLoads(r) \/ InitLoadsCached(r) \/ InitRestores(r) \/ InitFails(r)
  \/ InitFindsNone(r) \/ insert_new_collab(r) \/ InsertGroup(r)
EndFlush(f) == FlushWrites(f) \/ FlushRefused(f) \/ FlushFails(f)

Serve ==
  \/ \E r \in Runners : HandleCommand(r) \/ Initialize(r)
  \/ RemoveInactiveGroup \/ ForgetSender
  \/ \E f \in flushes : EndFlush(f)

Next ==
  \/ \E u \in Users :
       \/ Open(u) \/ Leave(u) \/ Broadcast(u) \/ Rejoin(u)
       \/ \E e \in Updates : Edit(u, e) \/ ApplyUpdate(u, e)
  \/ Serve
  \/ Corrupt \/ Crash

Spec == Init /\ [][Next]_vars

(* The runners and the tick are loops, and a task that writes ends: as     *)
(* long as the server has something to do it does something.               *)
FairSpec == Spec /\ WF_vars(Serve)

-----------------------------------------------------------------------------
(* The values the variables take.                                          *)
TypeOK ==
  /\ at \in [Users -> {"away", "asking", "in", "dropped"}]
  /\ local \in [Users -> SUBSET Updates]
  /\ commands \in [Runners -> Seq(Users)]
  /\ runner \in [Runners -> Runner]
  /\ retiring \in BOOLEAN
  /\ open \in BOOLEAN /\ doc \subseteq Updates /\ creator \in Users
  /\ flushes \subseteq Flush
  /\ row \in {"none", "ok", "bad"} /\ stored \subseteq Updates /\ snapshot \subseteq Updates
  /\ versions \subseteq SUBSET Updates
  /\ writers \subseteq Users
  /\ created \in 0 .. MaxGroups /\ faults \in 0 .. MaxFaults
  /\ acked \subseteq Updates /\ excused \subseteq Updates

(* An acknowledged update is in the group, in a task that writes it or in  *)
(* the storage, although the document is loaded, handed to a detached task *)
(* and overwritten as a whole.  Only these lose one: a flush that fails,   *)
(* is refused, or is under way at or after the reading of what becomes the *)
(* next group's document; a reading that fails, is refused, or is given by *)
(* redis something else; the insertion of a group in place of another; a   *)
(* row that does not decode; and a stop of the server.                     *)
LossExplained == acked \subseteq Kept \cup excused

(* When everybody has left for good, what was acknowledged is written: the *)
(* group loses its subscribers, the tick removes it and its flush ends.    *)
EventuallyStored ==
  <>[](\A u \in Users : at[u] = "away") => <>[](acked \subseteq Readable \cup excused)

(* While anybody stays subscribed the document goes back in one case only: *)
(* a second runner inserts its group in place of theirs, and of the        *)
(* subscribers only the one it was loaded for, if any, is one of the new   *)
(* group (AllGroup::create_group, tick and remove_group).                  *)
SubscribedDocumentGrows ==
  [][Subscribers \cap Subscribers' # {} =>
       \/ doc \subseteq doc'
       \/ /\ MaxRunners > 1
          /\ \E r \in Runners : InsertGroup(r) /\ Subscribers' = {runner[r].user}]_vars

(* Groups that come and go implement CollabDocument: however loads, flushes *)
(* and failures overlap, the document goes back only for who is loaded or  *)
(* dropped, and never has anything that nobody made.                       *)
Shared == INSTANCE CollabDocument WITH
  Clients <- Users, Stored <- Original, Replaceable <- MaxRunners > 1,
  replica <- local, document <- doc, joined <- Subscribers
ImplementsDocument == Shared!DocumentSpec
=============================================================================
