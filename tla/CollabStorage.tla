---------------------------- MODULE CollabStorage ----------------------------
(***************************************************************************)
(* The storage of collabs (src/biz/collab/{storage,cache,mem_cache,        *)
(* disk_cache}.rs and lib/database): rows of af_collab, written in         *)
(* transactions, and redis in front of them, which a write fills before    *)
(* its transaction commits and a read fills after its query.  The policies *)
(* are those of AccessControl.                                             *)
(*                                                                         *)
(* A request holds a slot and takes one step at every await that others    *)
(* can tell.  A collab that is being edited is read from its group         *)
(* (CollabBroadcast) and not from here.  The data of a collab of a batch   *)
(* is the data of the batch.                                               *)
(***************************************************************************)
EXTENDS AccessControl

CONSTANTS
  Objects,      \* the collabs that requests name
  Data,         \* what the client sends as encoded_collab_v1
  Undecodable,  \* the data that check_encoded_collab_data refuses
  RoleIn,       \* the role of each user in each workspace, or None
  Stored,       \* the data of the collabs there are at the start, or None
  Creator,      \* the user who made them
  Batches,      \* the sequences of collabs a request writes
  Slots,        \* the requests handled at the same time
  MAX_ATTEMPTS, \* of the query of a read (3 in the code)
  MaxRequests,  \* bound on the requests
  MaxFailures,  \* bound on the failures of redis and of the queries
  NotFound, Failed

ASSUME StorageAssumption ==
  /\ Objects \subseteq Collabs /\ Undecodable \subseteq Data
  /\ RoleIn \in [Workspaces -> [Users -> AFRole \cup {None}]]
  /\ Stored \in [Objects -> (Data \ Undecodable) \cup {None}] /\ Creator \in Users
  /\ \A b \in Batches : b \in Seq(Objects) /\ b # <<>>
  /\ MAX_ATTEMPTS \in Nat \ {0} /\ MaxRequests \in Nat /\ MaxFailures \in Nat
  /\ {None, NotFound, Failed} \cap Data = {} /\ NotFound # Failed

VARIABLES
  af_collab,  \* the committed rows
  mem_cache,  \* redis
  requests,   \* what each slot is doing
  asked,      \* the number of requests so far
  failures,   \* the number of failures so far
  offered,    \* history: the data each collab was allowed to be given
  excused     \* history: the collabs whose cached value may be an old one

stored == <<af_collab, mem_cache>>
counters == <<asked, failures>>
history == <<offered, excused>>
vars == <<accessVars, stored, requests, counters, history>>

Row == [blob : Data, workspace : Workspaces, deleted : BOOLEAN]
WriteRequest ==
  [op : {"write", "batch"}, u : Users, w : Workspaces, batch : Batches \cup {<<o>> : o \in Objects}, data : Data,
   pos : Nat, step : {"check", "upsert", "cache"}]
ReadRequest ==
  [op : {"get", "batch_get"}, o : Objects, step : {"mem", "disk", "fill"},
   attempts : 0 .. MAX_ATTEMPTS - 1, got : Data \cup {None}]
DeleteRequest == [op : {"delete"}, o : Objects, step : {"mem", "disk"}]
Answered == [op : {"answer"}, o : Objects, result : Data \cup {NotFound, Failed}]
Requests == WriteRequest \cup ReadRequest \cup DeleteRequest \cup Answered

(* No row and no request.                                                  *)
ASSUME NoneAssumption == None \notin Row \cup Requests \cup [objects : SUBSET Objects, data : Data]

-----------------------------------------------------------------------------
Doing(s, ops) == requests[s] # None /\ requests[s].op \in ops

(* What the transaction of a write has written, and what redis has of it.  *)
Before(q, n) == {q.batch[i] : i \in {j \in DOMAIN q.batch : j < n}}
Cached(q) == Before(q, q.pos)
Written(q) == Before(q, IF q.step = "cache" THEN q.pos + 1 ELSE q.pos)

(* Postgres: the row, or the new key, waits for the transaction that has   *)
(* written it.                                                             *)
Writers(o) == {t \in Slots : Doing(t, {"write", "batch"}) /\ o \in Written(requests[t])}
Locked(o, s) == Writers(o) \ {s} # {}

is_collab_exists(o) == af_collab[o] # None
Live(o) == is_collab_exists(o) /\ ~af_collab[o].deleted

enforce_read_collab(u, o) == is_collab_exists(o) /\ enforce_action(u, o, "Read")
enforce_write_collab(w, u, o) == is_collab_exists(o) /\ enforce_policy(w, u, Collab(o), "Write")
enforce_delete(u, o) == enforce_access_level(u, o, "FullAccess")
enforce_write_workspace(u, w) == enforce_role(u, w, "Owner")

check_collab_permission(w, u, o, exist) ==
  IF exist THEN enforce_write_collab(w, u, o) ELSE enforce_write_workspace(u, w)

Free(s) == requests[s] = None /\ asked < MaxRequests
Start(s, q) ==
  /\ asked' = asked + 1
  /\ requests' = [requests EXCEPT ![s] = q]
  /\ UNCHANGED <<accessVars, stored, failures, history>>

Becomes(s, q) == requests' = [requests EXCEPT ![s] = q]
GiveAnswer(s, result) == Becomes(s, [op |-> "answer", o |-> requests[s].o, result |-> result])

(* A failure of redis, of the connection pool or of a query.               *)
Fails == failures < MaxFailures /\ failures' = failures + 1

(* The transaction is rolled back; redis keeps what it was given.          *)
Rollback(s) ==
  /\ Becomes(s, None)
  /\ excused' = excused \cup Cached(requests[s])
  /\ UNCHANGED <<stored, counters, offered>>

-----------------------------------------------------------------------------
(* insert_or_update_collab_with_transaction, for the next of the batch.    *)

(* Mutant of Check: the data is not checked.                               *)
CheckPermissionOnly(s) ==
  /\ Doing(s, {"write", "batch"}) /\ requests[s].step = "check"
  /\ requests[s].pos \in DOMAIN requests[s].batch
  /\ LET q == requests[s]
         o == q.batch[q.pos]
         exist == is_collab_exists(o) \/ o \in Written(q)
     IN  /\ IF exist THEN UNCHANGED accessVars
                     ELSE update_access_level_policy(q.u, o, "FullAccess")
         /\ IF check_collab_permission(q.w, q.u, o, exist)
              THEN /\ Becomes(s, [q EXCEPT !.step = "upsert"])
                   /\ UNCHANGED <<stored, counters, history>>
              ELSE Rollback(s)

(* Who creates a collab is given full access before being allowed to.      *)
Check(s) ==
  /\ Doing(s, {"write", "batch"}) /\ requests[s].step = "check"
  /\ requests[s].pos \in DOMAIN requests[s].batch
  /\ LET q == requests[s]
         o == q.batch[q.pos]
         exist == is_collab_exists(o) \/ o \in Written(q)
     IN  /\ IF exist THEN UNCHANGED accessVars
                     ELSE update_access_level_policy(q.u, o, "FullAccess")
         /\ IF check_collab_permission(q.w, q.u, o, exist) /\ q.data \notin Undecodable
              THEN /\ Becomes(s, [q EXCEPT !.step = "upsert"])
                   /\ UNCHANGED <<stored, counters, history>>
              ELSE Rollback(s)

(* An INSERT that finds the key taken after it waited fails: Abort.        *)
insert_into_af_collab(s) ==
  /\ Doing(s, {"write", "batch"}) /\ requests[s].step = "upsert"
  /\ LET q == requests[s]
         o == q.batch[q.pos]
     IN  /\ ~Locked(o, s)
         /\ IF is_collab_exists(o) /\ af_collab[o].workspace # q.w
              THEN Rollback(s)
              ELSE /\ Becomes(s, [q EXCEPT !.step = "cache"])
                   /\ offered' = [offered EXCEPT ![o] = @ \cup {q.data}]
                   /\ UNCHANGED <<stored, counters, excused>>
  /\ UNCHANGED accessVars

(* Mutant of insert_encode_collab_bytes: an entry is not replaced.         *)
CacheIfAbsent(o, data) ==
  /\ mem_cache' = IF mem_cache[o] = None THEN [mem_cache EXCEPT ![o] = data] ELSE mem_cache
  /\ excused' = excused \ {o}
  /\ UNCHANGED failures

(* An error of redis is only logged.                                       *)
insert_encode_collab_bytes(o, data) ==
  \/ /\ mem_cache' = [mem_cache EXCEPT ![o] = data]
     /\ excused' = excused \ {o}
     /\ UNCHANGED failures
  \/ Fails /\ excused' = excused \cup {o} /\ UNCHANGED mem_cache

(* batch_create_collab_handler sets the policy whoever made the collab.    *)
CacheWritten(s) ==
  /\ Doing(s, {"write", "batch"}) /\ requests[s].step = "cache"
  /\ LET q == requests[s]
         o == q.batch[q.pos]
     IN  /\ insert_encode_collab_bytes(o, q.data)
         /\ Becomes(s, [q EXCEPT !.step = "check", !.pos = @ + 1])
         /\ IF q.op = "batch" THEN update_access_level_policy(q.u, o, "FullAccess")
                              ELSE UNCHANGED accessVars
  /\ UNCHANGED <<af_collab, asked, offered>>

(* An UPDATE does not touch deleted_at.                                    *)
CommitRow(q, o) ==
  IF is_collab_exists(o) THEN [af_collab[o] EXCEPT !.blob = q.data]
                         ELSE [blob |-> q.data, workspace |-> q.w, deleted |-> FALSE]

(* Mutant of Commit: only the first row is written.                        *)
CommitFirst(s) ==
  /\ Doing(s, {"write", "batch"})
  /\ LET q == requests[s] IN
       /\ q.pos > Len(q.batch)
       /\ af_collab' = [af_collab EXCEPT ![q.batch[1]] = CommitRow(q, q.batch[1])]
  /\ Becomes(s, None)
  /\ UNCHANGED <<accessVars, mem_cache, counters, history>>

Commit(s) ==
  /\ Doing(s, {"write", "batch"})
  /\ LET q == requests[s] IN
       /\ q.pos > Len(q.batch)
       /\ af_collab' = [o \in Objects |-> IF o \in Written(q) THEN CommitRow(q, o) ELSE af_collab[o]]
  /\ Becomes(s, None)
  /\ UNCHANGED <<accessVars, mem_cache, counters, history>>

-----------------------------------------------------------------------------
(* A failure of redis is a miss.                                           *)
get_encode_collab(s) ==
  LET cached == mem_cache[requests[s].o] IN
    \/ cached # None /\ GiveAnswer(s, cached) /\ UNCHANGED failures
    \/ /\ Becomes(s, [requests[s] EXCEPT !.step = "disk"])
       /\ IF cached = None THEN UNCHANGED failures ELSE Fails

(* get_collab_encoded of the cache.                                        *)
GetFromMem(s) ==
  /\ Doing(s, {"get"}) /\ requests[s].step = "mem"
  /\ get_encode_collab(s)
  /\ UNCHANGED <<accessVars, stored, asked, history>>

(* A timeout of the pool is tried again; another error is returned.        *)
GetFromDisk(s) ==
  /\ Doing(s, {"get"}) /\ requests[s].step = "disk"
  /\ LET q == requests[s] IN
       \/ /\ Live(q.o)
          /\ Becomes(s, [q EXCEPT !.step = "fill", !.got = af_collab[q.o].blob])
          /\ UNCHANGED failures
       \/ ~Live(q.o) /\ GiveAnswer(s, NotFound) /\ UNCHANGED failures
       \/ /\ Fails /\ q.attempts < MAX_ATTEMPTS - 1
          /\ Becomes(s, [q EXCEPT !.attempts = @ + 1])
       \/ Fails /\ GiveAnswer(s, Failed)
  /\ UNCHANGED <<accessVars, stored, asked, history>>

(* The queries of a batch are independent of each other, and what they     *)
(* find does not go to the cache.  On an error the batch has no answer for *)
(* the collab.                                                             *)
batch_get_encode_collab(s) ==
  /\ Doing(s, {"batch_get"}) /\ requests[s].step = "mem"
  /\ get_encode_collab(s)
  /\ UNCHANGED <<accessVars, stored, asked, history>>

batch_select_collab_blob(s) ==
  /\ Doing(s, {"batch_get"}) /\ requests[s].step = "disk"
  /\ LET o == requests[s].o IN
       \/ GiveAnswer(s, IF Live(o) THEN af_collab[o].blob ELSE NotFound) /\ UNCHANGED failures
       \/ Fails /\ GiveAnswer(s, Failed)
  /\ UNCHANGED <<accessVars, stored, asked, history>>

(* The row may have changed since it was read.                             *)
insert_encode_collab(s) ==
  /\ Doing(s, {"get"}) /\ requests[s].step = "fill"
  /\ LET q == requests[s]
         old == ~Live(q.o) \/ af_collab[q.o].blob # q.got \/ Locked(q.o, s)
     IN  /\ \/ /\ mem_cache' = [mem_cache EXCEPT ![q.o] = q.got]
               /\ excused' = IF old THEN excused \cup {q.o} ELSE excused \ {q.o}
               /\ UNCHANGED failures
            \/ Fails /\ UNCHANGED <<mem_cache, excused>>
         /\ GiveAnswer(s, q.got)
  /\ UNCHANGED <<accessVars, af_collab, asked, offered>>

(* delete_collab: redis first, and not the row when redis fails.           *)
remove_encode_collab(s) ==
  /\ Doing(s, {"delete"}) /\ requests[s].step = "mem"
  /\ LET q == requests[s] IN
       \/ /\ mem_cache' = [mem_cache EXCEPT ![q.o] = None]
          /\ excused' = excused \ {q.o}
          /\ Becomes(s, [q EXCEPT !.step = "disk"])
          /\ UNCHANGED failures
       \/ Fails /\ Becomes(s, None) /\ UNCHANGED <<mem_cache, excused>>
  /\ UNCHANGED <<accessVars, af_collab, asked, offered>>

delete_collab(s) ==
  /\ Doing(s, {"delete"}) /\ requests[s].step = "disk"
  /\ ~Locked(requests[s].o, s)
  /\ af_collab' = [af_collab EXCEPT ![requests[s].o] =
       IF @ = None THEN None ELSE [@ EXCEPT !.deleted = TRUE]]
  /\ Becomes(s, None)
  /\ UNCHANGED <<accessVars, mem_cache, counters, history>>

Reply(s) ==
  /\ Doing(s, {"answer"})
  /\ Becomes(s, None)
  /\ UNCHANGED <<accessVars, stored, counters, history>>

(* The transaction fails (a deadlock, say), the client goes away, or the   *)
(* server stops, which ends every request in this way.                     *)
Abort(s) ==
  /\ requests[s] # None /\ ~Doing(s, {"answer"})
  /\ IF Doing(s, {"write", "batch"}) THEN Rollback(s)
       ELSE Becomes(s, None) /\ UNCHANGED <<stored, counters, history>>
  /\ UNCHANGED accessVars

(* The time to live of a key is over, or redis restarts.                   *)
Expire(o) ==
  /\ mem_cache[o] # None
  /\ mem_cache' = [mem_cache EXCEPT ![o] = None]
  /\ excused' = excused \ {o}
  /\ UNCHANGED <<accessVars, af_collab, requests, counters, offered>>

-----------------------------------------------------------------------------
(* CollabStorageImpl, and the routes that lead to it.                      *)
insert_or_update_collab(s, op, u, w, b, data) ==
  Start(s, [op |-> op, u |-> u, w |-> w, batch |-> b, data |-> data, pos |-> 1, step |-> "check"])

ReadOf(op, o) == [op |-> op, o |-> o, step |-> "mem", attempts |-> 0, got |-> None]
get_collab_encoded(s, u, o) == enforce_read_collab(u, o) /\ Start(s, ReadOf("get", o))
batch_get_collab(s, o) == Start(s, ReadOf("batch_get", o))

remove_collab(s, u, o) ==
  enforce_delete(u, o) /\ Start(s, [op |-> "delete", o |-> o, step |-> "mem"])

create_collab_handler(s) ==
  \E u \in Users, w \in Workspaces, o \in Objects, data \in Data :
    /\ WorkspaceCheck(u, w, "POST", "collab")
    /\ insert_or_update_collab(s, "write", u, w, <<o>>, data)

update_collab_handler(s) ==
  \E u \in Users, o \in Objects, data \in Data :
    /\ MayUseCollab(u, o, "PUT", "collab", is_collab_exists(o))
    /\ insert_or_update_collab(s, "write", u, WorkspaceOf[o], <<o>>, data)

create_collab_list_handler(s) ==
  \E u \in Users, w \in Workspaces, b \in Batches, data \in Data :
    /\ WorkspaceCheck(u, w, "POST", "collabs")
    /\ insert_or_update_collab(s, "write", u, w, b, data)

batch_create_collab_handler(s) ==
  \E u \in Users, w \in Workspaces, b \in Batches, data \in Data :
    /\ WorkspaceCheck(u, w, "POST", "batch/collab")
    /\ insert_or_update_collab(s, "batch", u, w, b, data)

get_collab_handler(s) ==
  \E u \in Users, o \in Objects :
    MayUseCollab(u, o, "GET", "collab", is_collab_exists(o)) /\ get_collab_encoded(s, u, o)

(* What is read becomes a snapshot: SnapshotControl.                       *)
create_collab_snapshot_handler(s) ==
  \E u \in Users, o \in Objects :
    MayUseCollab(u, o, "POST", "snapshot", is_collab_exists(o)) /\ get_collab_encoded(s, u, o)

batch_get_collab_handler(s) ==
  \E u \in Users, o \in Objects :
    WorkspaceCheck(u, WorkspaceOf[o], "GET", "collab_list") /\ batch_get_collab(s, o)

delete_collab_handler(s) ==
  \E u \in Users, o \in Objects :
    MayUseCollab(u, o, "DELETE", "collab", is_collab_exists(o)) /\ remove_collab(s, u, o)

Init ==
  /\ AccessInit({p \in Policy :
       \/ \E w \in Workspaces :
            RoleIn[w][p.uid] # None /\ p \in RolePolicies({}, p.uid, w, RoleIn[w][p.uid])
       \/ \E o \in Objects : Stored[o] # None /\ p = PolicyOf(Creator, Collab(o), "FullAccess")})
  /\ af_collab = [o \in Objects |-> IF Stored[o] = None THEN None
       ELSE [blob |-> Stored[o], workspace |-> WorkspaceOf[o], deleted |-> FALSE]]
  /\ mem_cache = [o \in Objects |-> None]
  /\ requests = [s \in Slots |-> None]
  /\ asked = 0 /\ failures = 0
  /\ offered = [o \in Objects |-> {Stored[o]} \ {None}]
  /\ excused = {}

Handle(s) ==
  /\ Free(s)
  /\ \/ create_collab_handler(s) \/ update_collab_handler(s) \/ create_collab_list_handler(s)
     \/ batch_create_collab_handler(s) \/ get_collab_handler(s) \/ batch_get_collab_handler(s)
     \/ create_collab_snapshot_handler(s) \/ delete_collab_handler(s)

Step(s) ==
  \/ Check(s) \/ insert_into_af_collab(s) \/ CacheWritten(s) \/ Commit(s)
  \/ GetFromMem(s) \/ GetFromDisk(s) \/ insert_encode_collab(s)
  \/ batch_get_encode_collab(s) \/ batch_select_collab_blob(s)
  \/ remove_encode_collab(s) \/ delete_collab(s)
  \/ Reply(s) \/ Abort(s)

Next ==
  \/ \E s \in Slots : Handle(s) \/ Step(s)
  \/ \E o \in Objects : Expire(o)

Spec == Init /\ [][Next]_vars

-----------------------------------------------------------------------------
(* The values the variables take.                                          *)
TypeOK ==
  /\ AccessTypeOK
  /\ af_collab \in [Objects -> Row \cup {None}]
  /\ mem_cache \in [Objects -> (Data \ Undecodable) \cup {None}]
  /\ requests \in [Slots -> Requests \cup {None}]
  /\ asked \in 0 .. MaxRequests /\ failures \in 0 .. MaxFailures
  /\ offered \in [Objects -> SUBSET Data] /\ excused \subseteq Objects

(* Redis has the committed data of a collab unless a transaction on it is  *)
(* open, redis failed, a transaction was rolled back, or a read that began *)
(* before a write ended after it: the row lock that insert_into_af_collab  *)
(* takes orders the cache writes of two requests as it orders the rows.    *)
CacheFresh ==
  \A o \in Objects :
    Live(o) /\ mem_cache[o] # None /\ o \notin excused /\ Writers(o) = {}
      => mem_cache[o] = af_collab[o].blob

(* The storage does what CollabStore promises.                             *)
Value == [o \in Objects |-> IF af_collab[o] = None THEN None ELSE af_collab[o].blob]
Deleted == {o \in Objects : af_collab[o] # None /\ af_collab[o].deleted}
InBatch(q) == {q.batch[i] : i \in DOMAIN q.batch}
PendingOf(q) ==
  IF q # None /\ q.op \in {"write", "batch"}
    THEN [objects |-> InBatch(q), data |-> q.data] ELSE None
AnswerOf(q) ==
  IF q # None /\ q.op = "answer" THEN [object |-> q.o, result |-> q.result] ELSE None
Pending == [s \in Slots |-> PendingOf(requests[s])]
Answers == [s \in Slots |-> AnswerOf(requests[s])]

Store == INSTANCE CollabStore WITH
  value <- Value, deleted <- Deleted, pending <- Pending, answers <- Answers
ImplementsStore == Store!StoreSpec
=============================================================================
