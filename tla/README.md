# flow-cloud: TLA+ specification of the collaboration server and its client

flow-cloud is the server (and the client library) of a collaborative editor.
Documents ("collabs") are CRDTs; a client edits its own replica and synchronises
it, over one websocket per device, with a replica that the server keeps in memory
for as long as somebody subscribes to it and in Postgres after that.  HTTP
endpoints manage users, workspaces, members, collabs, snapshots and files.

This directory holds TLA+ modules that model the parts of the system that have a
state and a protocol, TLC configurations that check them on small instances, and
TLAPS proofs of the most important facts for every instance.  `PROJECT.json` maps
each definition to the source lines it models.

Paths below are relative to the repository root.

## 1. Inventory

### The client side of the synchronisation (`lib/client-api/src/collab_sync`)

* **Sink** (`sink.rs`, `sink_queue.rs`, `sink_config.rs`).  *State*: a priority
  queue of messages, the set of message ids that are flying, an id counter, a
  pause flag, the reported state (Init, Syncing, Finished, Pause) and a watch
  channel that wakes the runner.  *Operations*: queue a message (announce, push,
  merge), queue an init sync (clear, push), send the next batch, accept or refuse
  a response, resend on an 8 s interval, pause, resume.
* **Sync control and plugin** (`sync_control.rs`, `plugin.rs`).  The editor's
  callbacks queue updates while they hold the collab lock; the observer task
  handles server messages; the listener task handles connection states.  Observer
  and listener only `try_lock` the collab.
* **Websocket client** (`ws/`, `native/`).  *State*: the connection state, the
  handles of the current sender and pinger, the aggregate queue.  *Operations*:
  connect, disconnect, and the tasks of a connection (ping, receive, send,
  aggregate, tick).
* **HTTP client** (`http.rs`, `notify.rs`, `native/http_native.rs`).  *State*: the
  token, a refreshing flag, the callers that wait for a refresh.  *Operations*:
  sign in and out, refresh, requests.

### The server side (`lib/realtime`)

* **RealtimeServer actor** (`server/rt_server.rs`), one **RealtimeClient actor**
  per websocket (`client/rt_client.rs`).  *State*: session id by user, user by
  device, stream by user, edited objects by user, command sender by object.
  *Operations*: Connect, Disconnect, client messages over the websocket and over
  HTTP, a periodic tick.
* **Group command runners** (`server/collaborate/group_cmd.rs`, `group_sub.rs`):
  one task per object that creates the group on an init sync, subscribes users and
  passes messages on.
* **Groups and broadcast** (`group.rs`, `all_group.rs`, `group_broadcast.rs`,
  `sync_protocol.rs`): the document, its subscribers, a broadcast channel with
  sequence numbers, acks, removal of inactive groups.
* **Storage plugin** (`plugin.rs`): load at creation, restore from a snapshot,
  flush.

### The application (`src`)

* **Collab storage and caches** (`src/biz/collab`).  *State*: the rows of
  `af_collab`, redis in front of them.  *Operations*: write one collab or a batch in
  a transaction, read one or many, delete; permission checks before each.
* **Snapshots** (`src/biz/snapshot`): a bounded priority queue of snapshots to
  write, redis for the pending data.
* **Access control** (`src/biz/casbin`, `src/biz/pg_listener.rs`).  *State*: the
  policies of the enforcer, a cache of answers for the realtime server.
  *Operations*: add and remove policies, enforce, forget a cached answer; the
  callers are the handlers, the listeners of database notifications and the start.
* **Users, workspaces and members** (`src/biz/user.rs`, `src/biz/workspace`,
  `src/api/workspace.rs`, `lib/database`): sign-up, creation and deletion of
  workspaces, invitations, roles in workspaces and levels on collabs.
* **Files** (`src/api/file_storage.rs`): a blob and its metadata.
* **Libraries**: redis streams (`lib/collab-stream`), id generator
  (`lib/snowflake`), encryption, templates, GoTrue and AI clients.

### Interactions

```
 editor --queue_msg--> sink --batches--> ws client ==websocket==> RealtimeClient actor
   ^ collab lock        ^                    |                          | ClientMessage
 observer <-------------+---- messages ------+                          v
 listener <---- connection states                               RealtimeServer actor
                                                                        | GroupCommand
                  storage plugin <--load/flush-- group <--subscribe-- runner of the object
                        |                         | broadcast, acks
                  cache / Postgres / snapshots    +--> every subscriber's stream
```

### What is hard in it, and the properties that make it right

* Client: four tasks share the sink and the collab lock; messages are resent,
  responses come late, twice or never.  *No local update may be forgotten while
  the client believes it is synchronised; the sink must not be left paused; what
  is queued must reach the server in the end.*
* Server sessions: connections replace each other, Disconnect messages come late
  and twice, users of the same second are equal, runners wait for the storage in
  the middle of a command.  *A live websocket is served, a dead one is not a
  subscriber, every group loses its subscribers in the end, and the one thread that runs
  all of this does not wait for itself.*
* Groups: removal, flush and reload race with new subscribers and with a second
  runner of the same object.  *What was acknowledged must be in the document, or
  come again with the next init sync.*
* Storage: redis is written before a commit and after a query, and neither is
  atomic with the other.  *A write is all or nothing, a reader gets only what
  somebody was allowed to write, and redis disagrees with a row only for a known cause.*
* Policies: three writers (handlers, listeners, the start of the server) that see
  the tables at different times.  *Nobody the tables name as a member is locked
  out; the owner stays; the realtime cache grants nothing the policies refuse.*
* Websocket and HTTP client: calls overlap at their awaits, tasks outlive the
  connection that started them, a refresh is shared by callers that come and go.
  *One sender and one pinger are in charge, a dead connection is noticed, nobody
  waits for ever.*
* Snapshots: a value read before an await and used after it.

The hazards are listed one by one, at their lines, in `PROJECT.json`.

## 2. Modules

| module | models | extends |
|---|---|---|
| `CollabDocument` | what the clients of a collab may rely on (abstract) | |
| `DeviceSessions` | what the realtime server promises a device (abstract) | |
| `CollabSink` | the sink: queue, order, merging, batches, flying set, signals | |
| `CollabSync` | one client and the server's replica: editor, runner, interval task, observer, listener, network, group, storage; implements `CollabDocument` | `CollabSink` |
| `MCCollabSync` | instances of `CollabSync` | `CollabSync` |
| `CollabSyncProofs` | proofs about `CollabSync`, with its refinement of `CollabDocument` | `CollabSync` |
| `RealtimeServer` | websockets, sessions, streams, group runners, subscribers; implements `DeviceSessions` | |
| `MCRealtimeServer` | instances of `RealtimeServer` | `RealtimeServer` |
| `RealtimeServerProofs` | proofs about `RealtimeServer`, with its refinement of `DeviceSessions` | `RealtimeServer` |
| `SnapshotControl` | the snapshot queue: command channel, runner, ticks, redis, the snapshot table | |
| `MCSnapshotControl` | instances of `SnapshotControl` | `SnapshotControl` |
| `SnapshotControlProofs` | proofs about `SnapshotControl` | `SnapshotControl` |
| `CollabBroadcast` | several clients of one group: broadcast channel, subscriptions and their tasks, sequence numbers, init syncs; implements `CollabDocument` | |
| `MCCollabBroadcast` | instances of `CollabBroadcast` | `CollabBroadcast` |
| `CollabBroadcastProofs` | proofs about `CollabBroadcast`, with its refinement of `CollabDocument` | `CollabBroadcast` |
| `CollabGroups` | the document of one collab through groups that follow or replace one another: runners, load, restore, detached flush, storage; implements `CollabDocument` | |
| `MCCollabGroups` | instances of `CollabGroups` | `CollabGroups` |
| `CollabGroupsProofs` | proofs about `CollabGroups`, with its refinement of `CollabDocument` | `CollabGroups` |
| `AccessControl` | policies, the rules of the middlewares, the realtime cache | |
| `Members` | users, workspaces, invitations, members; handlers, listeners, restarts | `AccessControl` |
| `MCMembers` | instances of `Members` | `Members` |
| `MembersProofs` | proofs about `Members` and `AccessControl` | `Members` |
| `CollabStore` | what the storage of collabs promises (abstract) | |
| `CollabStorage` | rows, transactions, redis and the requests on them; implements `CollabStore` | `AccessControl` |
| `MCCollabStorage` | an instance of `CollabStorage` | `CollabStorage` |
| `CollabStorageProofs` | proofs about `CollabStorage`, with its refinement of `CollabStore` | `CollabStorage` |
| `WSClient` | the websocket client's connections and tasks | |
| `MCWSClient` | an instance of `WSClient` | `WSClient` |
| `HttpClient` | the token and the calls that use and replace it | |
| `MCHttpClient` | an instance of `HttpClient` | `HttpClient` |
| `ClientProofs` | proofs about `HttpClient` and `WSClient` | `HttpClient`, `WSClient` |

Operators commented "Mutant of X" are deliberately wrong variants of X.  They are
used nowhere; each shows, when it takes the place of X, that a property notices.

### CollabDocument and DeviceSessions

Three modules look at one collab from different sides, and each is too large to be checked
together with another: `CollabSync` (one client, its sink and an unreliable network),
`CollabBroadcast` (several clients of one group) and `CollabGroups` (the groups that
follow or replace one another).  `CollabDocument` is what all three promise the clients: a
replica never loses an update; a client learns only while it is subscribed, and only of
what the server accepted; the server accepts only what the sender made or learnt; and the
server's document goes back in two steps only, and never to something nobody made.
`Close` ends every subscription (the removal of an unused group, a crash).  `Load` gives a
client a document that was loaded for it, and that may be older, or empty, because the
load failed, redis was stale or a snapshot was restored.  A load happens when nobody is
subscribed, or, where the code may have a second runner (`Replaceable`), in a step that
ends the subscription of everybody else, whom nobody tells.  The client's document, the
server's (in `CollabSync` the group's, or what the storage has without a group) and the
subscriptions are the refinement mapping; the queues, channels, cursors, flushes and what
the runners do are hidden.

`DeviceSessions` is the promise of `RealtimeServer`: one connection serves a device at a
time, one that was replaced or has ended never serves it again, and the device leaves all
its groups in the step that ends or replaces its connection.  The mapping looks through
the five maps of the server: a device is served by the session to which the stream of its
user belongs, and takes part in a group if any of its users, of whatever second, is
subscribed.  `Reload` is what the code does that one may not expect: a runner whose
creation of a group ends late puts its new group in the place of the one that another
runner has made meanwhile, and whoever is in that one drops out of it although it is
connected.

### CollabSink and CollabSync

*Data.*  A document is the set of edits in it; a message carries a set of edits.
All the edits are the client's own, so a sync step 2 from the server brings it
nothing and other clients' broadcasts appear only as `MissedBroadcast`, the gap in
the sequence numbers that starts an init sync.

*The queue* is a set of messages with a pop order (`PoppedBefore`).  The code's
`Ord` says Equal of two server init syncs and of two client init syncs, so which
of them a heap pops first is a choice.

*Steps.*  `queue_msg` is three steps for the editor (`BeginEdit`, `PushEdit`,
`EndEdit`), because the observer and the listener may run in between; it is one
step for the observer, whose callers hold the collab lock.  The first step reports Syncing, so
a response that is accepted before the second reports Finished over it, with a message on
its way into the queue.  The runner's wake-up
and `process_next_msg` are one step, the sending another.  `validate_response` is
one step: it holds the queue's lock from the comparison to the pop.

*Faults.*  `Faults` says which of them an instance has: loss and duplication of
messages, responses that come later than the interval (`slow`), `CannotApplyUpdate` and
`Retry` answers, failed `try_lock`s of the sink or of the collab, a websocket channel that
refuses a batch, loads that give less than what is stored, a second runner.  `MaxDisruptions`
bounds faults, disconnections, crashes and gaps together.  The order of delivery
is free in both directions.  `sinkBusy` occurs at the connection listener's init
sync and at the merge after an edit, the calls that can meet a held lock.

*`PromptNetwork`* says that a round trip ends before the next 8 s tick, except where the
fault `slow` has the tick come first.  Without it a tick in every round trip forgets what is
flying and makes the sink refuse every response, a livelock the code really has, so that
liveness needs it.  `sync_merge` is without it: there a tick may come at any time.  So are
the theorems, which hold for either value.

*The server* is one replica: a group, its document and the stored document.  The
collab's lock is always free on the server because its tasks share one thread and
hold the lock across no suspension point.  `session` is what the server knows of the
client, which is not what the client knows: a Disconnect is handled some time after the
connection is gone (`ServerForgets`), and whatever the client sends while it has a stream
subscribes it.  A group without subscribers is removed, also while the client is
connected, and its flush may fail; the server may crash at any time.

*Loads.*  An init sync that finds no group loads the stored document, if all goes well.
With the fault `load` it may get less (`ServerLoadsLess`): nothing, after an error that is
logged, or something that was stored before, from a snapshot or from redis (`versions`).
With `secondRunner` the same happens although there is a group (`ServerCreatesAgain`):
another runner of the object inserts its own.  The reply to the init sync shows the client
what the server misses, and it brings it again: `NoLostUpdate` holds with `load`.

*Left out*: `reset()`, the Stop signal of a dropped sink, the debounce of init
syncs, encodings.

### RealtimeServer

*Users.*  `RealtimeUserImpl` is equal for two connections of one device in one
second, hence a user is a device and a second of the clock.  A session is the
index of its websocket.

*Steps.*  The handlers of the actor meet no suspension point that waits for
another task, so each is a step.  A runner handles a command in one step except
that `create_group` waits for the storage (`StartCreateGroup`,
`FinishCreateGroup`), and anything may happen in between.  The tick removes a
group without subscribers and forgets the sender of its runner: `current` moves on
to a runner that is started by the next message, while the old one still works
through its commands, so two runners of one object run side by side.

*A websocket* stops when the client closes it, when it is kicked by a duplicate
connection, or when its heartbeat times out, which sends Disconnect twice.  It does
not stop while its Connect is being handled: `wait(ctx)` holds its other events.

*Left out*: the payload of messages; the age a group must have before it is
removed (any group without subscribers may be); the limits of mailboxes; the access
checks of a stream.

*A stream that lags.*  Each subscription has a task that receives from the client's stream
(`rt_server.rs:533`), and it ends, without a word, at the first `Lagged` of the broadcast
channel of 1000 messages.  `LagBehind` is the case that all tasks of a stream have ended
(`deaf`); the user still counts as a subscriber, so nothing starts another.  The next
message finds no receiver, and `broadcast_client_collab_message` then removes the stream
from the DashMap while it holds a reference into it.  DashMap waits for the reference, on
the thread that runs the actor, the runners and the handler of Disconnect: nothing
moves any more (`hung`).  The run `server_hangs` shows it; `GroupsBecomeInactive` is about
a thread that is not stuck.

### SnapshotControl

*Data.*  The data of a snapshot is a version number, greater for later data;
`Undecodable` are the versions that `check_encoded_collab_data` refuses.  Redis has
at most one version per object, since the key is the object id.

*Steps.*  The runner handles one command after the other, so pushing the item and
inserting its data is one step.  A tick that writes is several: the INSERT, the
start and the end of the DELETE, the COMMIT and the removal from redis, each of
which may be interleaved with those of `create_snapshot` requests.  Transactions are
read committed (the code sets no level): a statement sees the committed rows and its
own, and a DELETE waits for another transaction's lock and then skips the deleted
rows.  Rows are ordered by insertion; the code orders by `created_at`, which the
table fills in (its definition is not in the repository).

*Faults.*  The lock of the redis client is taken (`busy`), no connection is free
(`noTx`), a statement or the COMMIT fails (`abort`), redis does not take or remove
the data (`insert`, `remove`), the data expires (`expire`).  `MaxFaults` bounds
their number.  A COMMIT that succeeds but is reported as failed is not modelled.

*History.*  `queued`, `wrote` and `unremoved` record what is owed for each object,
what the runner wrote, and where redis refused a removal.  No action reads them.

*Left out*: reads of snapshots, which change nothing, and the metrics.

### CollabBroadcast

*Data.*  A document is the set of updates in it, whoever made them.  The reply to an
init sync carries the document it was made from, which stands for both the missing
updates (sync step 2) and the state vector (sync step 1).  A subscription is named
by the init sync that made it; `current` says which one the group has for a client.

*Steps.*  A subscription has two tasks, a forwarding one (`Forward`, `FallBehind`)
and one that handles messages (`StreamReplies`, `StreamApplies`); each goes on until
it takes the stop signal (`StopSink`, `StopStream`).  An init sync renews the
subscription and is then passed to every stream of the connection, so that two
tasks may answer it; the client refuses the second answer.  What one subscription
sends arrives in order, what two of them send in any order (`out`).  After a
disconnection a task may still apply the messages it has.

*The channel* is `log`, with a cursor per receiver; a receiver more than `Capacity`
behind gets an error.  The code asks for 10, which tokio rounds up to 16; the value
only matters in that a burst can exceed it.

*Init syncs* are started by a connection and by a gap in the sequence numbers, which
a client's own updates cause as well.  The debounce is a choice.  `MaxInitSyncs`
bounds their number; `Spare` keeps one for every client that has to reconnect.

*Left out*: acks of updates, resending and merging (in `CollabSync`), so a connection
loses nothing while it lasts; awareness broadcasts; access checks; missed collab
locks; the limits of the client stream.  An update of a client without subscription,
which would subscribe it too, does not occur here: an init sync comes first.

### CollabGroups

*Data.*  A document is the set of updates in it.  `flushes` are the writing tasks
that have not ended; `row`, `stored` and `snapshot` are what the storage has, and
`versions` what it was ever given, which redis may still have.

*Steps.*  A runner takes an init sync out of its channel (`HandleCommand`), waits
for the storage when it has to create the group (`create_group`, then one of the
`Init...` steps), the plugin creates the row in a further step if there is none
(`insert_new_collab`), and the group is entered in the map (`InsertGroup`).  The tick
removes a group without subscribers (`RemoveInactiveGroup`): it starts the flush, waits
for nothing, and then forgets the sender of the runner (`ForgetSender`).  A flush ends by
writing, by being refused (the plugin writes as the user who opened the group first) or by
failing.

*Two runners.*  The first runner is the one whose sender `group_sender_by_object_id` has.
A forgotten one goes on with the commands it has, under another number, and the next message
starts another.  Both may find no group and load the document; the later insert replaces the
group of the earlier one, which may be in use by then.  Its document is not written, and its
subscribers are `dropped`: connected, not told, and without updates until they send
something (`Rejoin`) or ask again (`Open`).

*What a load gives.*  The row (`InitLoads`); what redis has in its place
(`InitLoadsCached`); a snapshot if the row does not decode (`InitRestores`); or nothing
(`InitFails`), which needs no failure: it is what a creator gets who may not read the collab,
because the permission is checked in the load.

*Faults.*  A load, an insert or a flush fails, redis is stale, the data of the row does not
decode any more, the server stops; `MaxFaults` bounds their number.

*History.*  `acked` are the updates the server acknowledged; `excused` those that an
event named in `LossExplained` may have lost.  No guard reads them.  `overtaken` marks
the flushes that were under way when a later group read the row, or that belong to a group
in whose time another runner read it.

*Left out*: the messages between client and group (in `CollabSync` and `CollabBroadcast`),
the client stream's cache of permissions (in `AccessControl`), the counters of edits, reads
of the group's document for HTTP requests; a queued snapshot is in the table at once or
never.

### AccessControl and Members

*Data.*  uid, email and uuid of a user are one value.  A workspace and its folder have
one id and are two objects of the policies.  A policy is a user, an object and a role or
a level; `Grouped` and `Matches` are the casbin model.

*Steps.*  A handler that changes the policies and then commits is two steps (the request
holds a slot in between); it may be aborted between them, which undoes the rows and not
the policies.  The triggers of the database append to two queues of notices, which the
listeners take one by one.  A restart loads the policies from the tables and drops the
cache.  A check of the realtime server reads the policies in one step and stores its
answer in another.  The cache keeps the action that was asked about, and answers a later
question by comparing with it.

*What the code does that one may not expect*, and the model therefore too:
`update_policy` only adds, so a user keeps the policies of former roles; `remove_policy`
compares the object of a policy with the uid and removes nothing until a restart; an
aborted request leaves its policies; a removed member keeps the `af_collab_member` row of
the folder; after an owner is given another role and the server restarts nobody has the
role Owner; accepting an invitation again adds the policy again.

*Left out*: renaming, listing and usage, which touch neither members nor policies; lost
notifications and a listener that lags more than 1000 behind; requests whose path and
body name different workspaces; disabled access control.

### CollabStore and CollabStorage

`CollabStore` is the promise: a write takes effect on all of its collabs at once or on
none, a collab is found unless it was never written or is deleted, and what a reader gets
was written to that collab by a request that was allowed to, although perhaps not the
last one and perhaps one that failed in the end.  `ImplementsStore` maps the durable
value to the committed rows, whatever redis has.

*Steps.*  A request holds a slot and takes one step at every await that others can tell:
permission check, upsert (which takes the row's lock), cache, commit; or cache, query,
refill.  A query that timed out waiting for a connection is tried again, any other error is
returned at once.  A request may be rolled back at any of them.  `offered` and `excused` are
history: the data requests were allowed to write, and the collabs whose cached value may
be an old one, with the cause.  Nothing is said of how long redis stays stale: that is the
expiry of its keys, which no code of the repository influences once they are set.

*Left out*: collabs that are being edited, whose reads the group answers; listing
queries; collab types.

### WSClient

*Steps.*  `connect` is split at its awaits: the check of the state with the cleaning up,
setting the state, the end of the connection attempt.  `disconnect` is two steps, stopping
the sender and then, after the Close frame was sent, the rest (`Disconnected`), so that a
connect may come in between.  What follows a successful attempt is one step, except that
the first ping may run ahead of the subscription of the sender (`early`): it then finds no
receiver, and the pinger ends.  Each connection has a record with its four tasks; the shared state has the handles
that stop the current sender and pinger, the number of aggregators, and the queue.
`retry_connect` is a choice of success, authentication error or other failure.

*Faults.*  The connection breaks, the receiving task ends, a pong is not read, a send
fails, an aggregator lags.

*History.*  `sent` and `lost` say what became of each message that was published.  A message
that was put in the queue is lost only by a fault, a disconnect, or a second connect, whose
`clear` drops what the queue has.

*Left out*: the channels of the collabs (in `CollabSync`), the rate limiter, and the
way large messages go over HTTP.

### HttpClient

*Steps.*  A call is split wherever another can run: the check of the token, queueing the
oneshot sender, loading the flag, storing it, asking GoTrue, setting the token, taking
the queue and telling those in it, clearing the flag.  The check and the use of the access token
after a refresh are one step.  A future may be dropped while it asks or waits.  The token
of an earlier session is restored at the start only.

*Left out*: what the requests carry; the wasm variant of the refresh.

## 3. Runs

| run | what it shows | bounds |
|---|---|---|
| `sync` | no update is forgotten, ids are issued once, the sink is not left paused; the client and its server implement `CollabDocument`; every update reaches the server and the sink reports Finished | 2 updates, one of them made offline; any 2 of disconnections, crashes, gaps and `Survivable` faults (all but Retry, missed collab locks and a second runner); no merging |
| `sync_merge` | merging loses nothing on a network that loses nothing | 2 updates, no disruption, ticks at any time |
| `sync_drain` | the queue drains with merging, awareness, Retry answers and missed locks; the document of a subscribed client goes back only by a second runner | 1 update, 1 awareness update, 1 disruption |
| `server` | the server implements `DeviceSessions`; one stream per device, live websockets are served, no ghost subscribers, streams end, groups become inactive once everybody has left, unless the thread hangs | 1 device, 1 object, 3 connections, 2 seconds, 2 runners |
| `server_hangs` (violation of `DisconnectedLeave`) | a stream that lagged makes the thread of the server wait for itself | 1 device, 1 object, 1 connection, 1 runner |
| `snapshot` | what redis took is not stranded there and is written in the end; nothing is written twice; the table keeps enough rows and not many too many | 1 object, the runner and 1 request, limit 2, 4 versions, 2 faults |
| `broadcast` | the group implements `CollabDocument`; no update falls between an init sync and the subscription it renews; the server gets every update, and so do the clients whose forwarding task runs | 2 clients, 2 updates, capacity 1, 3 init syncs |
| `groups` | groups that follow or replace one another implement `CollabDocument`; an acknowledged update is lost only by a named event, and stored once everybody has left; under a subscriber the document goes back only by the insertion of a second runner's group | an owner, who edits, and a guest, who may not read; 1 update, 2 runners, 3 groups, 1 failure |
| `members` | no member is locked out, the owner stays, the realtime cache grants nothing the policies refuse, every member is admitted in the end | 2 users, one of whom signs up, 2 workspaces, 2 overlapping requests, 1 check, 1 restart |
| `storage` | the storage implements `CollabStore`; redis is stale only for a known cause | 2 users, 2 collabs, batches in both orders, 2 overlapping requests, 2 query attempts, 2 failures |
| `ws_client` | one sender and one pinger are in charge; a dead connection is noticed; what is queued is sent, or lost only after a fault, a disconnect or a second connect | 2 calls of connect, 1 of disconnect, 1 message (an init sync, which exceeds the limit of a batch by itself), 1 fault |
| `http_client` | a request that waited for a refresh carries a later token; nobody waits for ever | 2 callers, 2 users, tokens that live for 1 step of the clock, 3 tokens, 1 retry, 1 dropped future |

The bounds are the smallest with which each listed case occurs: two updates, so
that one is merged into, queued behind or acknowledged instead of the other; two
disruptions, so that one hits the recovery from the other; three connections in two
seconds, so that a device has predecessors both of the same and of another second
while Disconnects are under way; two runners of an object, so that one creates the
group the other has created; four versions with a limit of two, so that rows are
deleted while another transaction is deleting and an item finds the data of a later
one; a third init sync, so that one client renews its subscription, by a gap or by
reconnecting, while the other edits, and a capacity of one, so that two updates are a
burst; three groups of an object, so that a forgotten runner's group is replaced by, or
replaces, the next one's, and flushes of earlier groups meet both loads (that more groups
change nothing is proved); two overlapping requests in
`members` and `storage`, which already includes every pair of handlers, batches that
lock each other's rows, and a read around a write; two connections, so that the tasks of
the first live on beside the second; two callers, so that one refreshes while the other
joins, signs out or finds the flag left behind.  `MAX_ATTEMPTS` is 2 where the code has 3,
`Retries` 1 where it has 4 and `retry_connect_per_pings` 1 where it has 10: each counter
reaches its limit and, once, does not.  That all of the invariants, `KeepsEnough`, `StreamsEnd` and the
refinements (`ImplementsDocument`, `ImplementsSessions`, `ImplementsStore`) hold for any
number of updates, disruptions, clients, devices, objects, requests and faults is proved,
so that the bounds matter for liveness only.  The type invariants of `CollabSync`,
`CollabBroadcast`, `CollabGroups`, `RealtimeServer`, `Members`, `HttpClient` and `WSClient`
are proved and checked by no run.

The runs `members`, `storage`, `broadcast`, `server`, `server_hangs`, `ws_client` and
`http_client` do not check for deadlock: when the bounded requests are over, or the thread
hangs, nothing is left to do.

### Where code and comments differ

The properties are stated so that they hold of what the code does.  In these places a
comment, or what a reader would expect, says something else:

* `merge` takes Ok(false) for a merge (`sink.rs:323`): an update behind an unsent
  awareness update is dropped, leaves the queue and is never sent.  With awareness updates
  `NothingVanishes` does not hold; the runs that check it and `NoLostUpdate` have none.
* After a tick a message that is under way may be merged into, and the response to its
  first sending pops what was merged (`sink.rs:101`, comment at 309).  `NothingVanishes`
  is about the client's queue; `NoLostUpdate` is checked without merging.
* Two transactions that overlap do not see each other's row, so that the table of
  snapshots has one row more than the limit (`collab_db_ops.rs:340`, comment at 308);
  `LimitNearlyKept` is what holds.
* A receiver that falls behind ends its forwarding task while its client stays
  subscribed and gets neither updates nor a sequence number that would tell it
  (`group_broadcast.rs:183`, comment at 76).  `EventuallyConverged` is about the clients
  whose task runs.
* With the fault `collabBusy` (a local edit holds the collab lock when the observer or
  the listener tries it) the reply to an init sync or a Connected event is dropped, unlike
  the comment at `plugin.rs:84` of the client says, and `NoLostUpdate` and
  `ConnectedResumes` fail; `sync_drain` shows what still holds.
* A subscriber receives the changes of its group, says `group_cmd.rs:123`.  The subscribers
  of a group that a second runner's insert replaces (`all_group.rs:118`) do not, until they
  send something; their updates that were acknowledged and not flushed are lost to the
  server until the next init sync brings them again.  `SubscribedDocumentGrows`,
  `SubscribedServerKeeps` and `CollabDocument` name the case; they do not exclude it.
* A user is taken out of its groups when its Disconnect arrives, says `rt_server.rs:269`.
  The message after a stream has lagged hangs the thread first (`rt_server.rs:426`); the run
  `server_hangs` shows it.
* The realtime cache keeps the action that was asked about and not the greatest that is
  allowed (`collab_ac.rs:134` and `146`): whoever may edit a collab and was asked about
  reading first is refused writing until the policies change again, unlike the comment at
  `permission.rs:26` says.
* `remove_user_from_group` leaves an empty group in the cache until a later tick.
* The flush at the removal of a group is not blocking, as the comment in `group.rs` has
  it, but a detached task (`plugin.rs:248`): hence `overtaken` in `CollabGroups`.  Nothing
  calls the flush while a group lives, although `should_flush` describes when it would be
  due.
* `enforcer.rs` describes `update_policy` as replacing the policy; it adds one.
  `remove_policy` selects nothing.
* The creator of a collab is granted full access before the permission check
  (`storage.rs:172`), also when the check then refuses.
* `inner_refresh_token` does not unset the token when GoTrue refuses the refresh:
  the error of GoTrue is not the one that `is_unauthorized` asks for (`http_native.rs:138`).
* A refresh that is under way when the user signs out sets the token again
  (`retry.rs:54`).
* The id generator repeats an id when a millisecond's sequence is used up
  (`snowflake/src/lib.rs:32`).

Some lines of the commit do not compile as they stand (`tokio::spanw`, `start_pin`,
`let *lock >=`); they are read as what they evidently mean.

### Fairness

*CollabSync.*  Every task of the client is a spawned loop, so its steps are weakly fair; so
are the server's handling of what arrived, a Disconnect included, and the reconnection (the
websocket client retries).  Edits, disruptions and the tick that removes a group need not
happen.  `Accept` is strongly fair because of ties only: of two equal init syncs the heap
does not pop for ever the one whose response is not the next.  `EventuallySynced` and
`EventuallyFinished` excuse a client whose observer has ended after a `CannotApplyUpdate`
(`sync_control.rs:304`): nothing handles a response any more.

*RealtimeServer.*  The actor's mailbox and each runner's channel are served, and a
kicked websocket stops.  Nobody is obliged to connect, to close, to send, or to
tick.

*SnapshotControl.*  The runner and the ticking task are spawned loops, and the
database finishes the transactions of the requests.

*CollabBroadcast.*  The runner of the group, the tasks of every subscription and the
observers of the clients are spawned loops, and a client without a connection
reconnects.  Edits, disconnections and the stop of an old task need not happen.

*CollabGroups.*  The runners and the tick are loops, and a task that writes ends: as long as
the server can do something (`Serve`) it does something, and no more is assumed.  Nobody is
obliged to open, to edit or to leave: `EventuallyStored` assumes that everybody left.

*Members.*  The listeners and the task that forgets cached answers are loops, and a
handler ends, by committing or by failing.

*WSClient.*  Pinging, sending and ticking are loops.  Connecting, disconnecting and
faults need not happen.

*HttpClient.*  The tasks run, GoTrue answers or the request to it fails, and the 60 s of
the timeout pass.  The clock does not outrun an answer that is on its way.

## 4. Proofs

`CollabSyncProofs` proves, for any sets of edits, faults and bounds:

* `TypeCorrect`: the type invariant.
* `NothingForgotten`: without merging, without missed collab locks, without Retry answers
  and without a second runner, no local update is forgotten (`NoLostUpdate`), also when
  groups start with an old or an empty document.  The property alone
  is not inductive: that an update is in a queued message says nothing of what the
  response to an *earlier* message with the same id would pop.  `SyncInv` adds that
  ids are unique over the queue, the batch and the network, that an answer under way
  belongs to a message whose content the server has had, and which of the later
  steps of a reconnection (connection event, init sync, reply) is still to come and
  will bring what the server lost.  A load that gives
  less costs nothing because it comes before the reply to an init sync: whoever is not
  subscribed has yet to send one that nobody has answered (`SessionFits`, `Rejoins`), and the
  reply will tell what the server misses.
* `NotLeftPaused`: as long as the listener finds the collab lock free, merging or not and
  under every other fault, a sink whose listener has handled every connection state is not
  paused while the connection is up.  The invariant adds that the last state the listener
  has handled, or is yet to handle, is the state of the connection.
* `IdsStayUnique`: with or without merging and under every fault, ids name one message of
  the queue and were issued (`IdsIssuedOnce`).
* `MergingLosesNothing`: with merging, but without awareness updates and on a network that
  loses nothing, no update vanishes (`NothingVanishes`), also when responses are repeated or
  late, the server crashes and loads fail.  `merge` changes
  messages that have been sent before, and the response to the first sending pops what was
  merged.  `MergeInv` says of each update where it is: on the server, in a message that
  will be sent as it is because its id is not flying, under way, or to be asked for by an
  init sync.  The lemma `MergedKeeps` is what it needs of `merge`: the head that absorbs a
  message that is not flying is not flying either.
* `SyncImplementsDocument`: with or without merging and under every fault, the client and
  its server implement `CollabDocument`.  The invariant, `OwnEdits`, is that every payload
  that waits, is under way or is kept by the server, in the group, the row or anything that
  redis or a snapshot may still have, was taken from the client's document; for this `merge`
  must bring no edit into the queue (`MergedOps`).  An init sync that finds no group is a
  `Load`, whatever it gives, and so is one for which a second runner makes its own; one that
  finds the group is a `Learn` or a stutter.
* `SubscribersKeepTheDocument`: under a client that stays subscribed the server's document
  goes back by the insertion of a second runner's group only (`SubscribedServerKeeps`).
  While the *connection* lasts it may go back without one: the tick removes the group that an
  earlier connection has left, and the first init sync of the new one loads less.

The assumptions of `NothingForgotten`, `NotLeftPaused` and `MergingLosesNothing` are the
ones that section 3 ("Where code and comments differ") shows
to be necessary; the other theorems have none.

`RealtimeServerProofs` proves the type invariant, `OneStreamPerDevice`, `OpenIsServed`,
`NoGhostSubscriber` and `StreamsEnd` for any numbers of devices, objects, sessions
and runners, from one inductive invariant `ServerInv`.  It adds three facts: a
device is mapped to a user of its own (`OwnDevice`); a stream belongs to a
websocket whose Connect was handled, and only stopped websockets say goodbye
(`Handled`); every subscription is in `editing` (`Tracked`), which is where
`remove_user` looks for it.  Without the last a disconnection would leave a ghost
subscriber behind; without the second a Disconnect could hit an open websocket.

From the same invariant `ServerImplementsSessions` proves the refinement of
`DeviceSessions`: a Connect and a Disconnect, each of them with everything `remove_user`
does, are one step of it, and everything else the mailbox, the ticks and the runners do is
a join, a reload or a stutter.  `ReplacedLeavesGroups` states the consequence as an action
property: a connection that begins or ends to serve a device takes the device out of every
group in that very step, and one that has ended never begins to serve a device again.

`SnapshotControlProofs` proves the type invariant and `NothingStranded` for any
objects, requests, limits and faults.  The invariant `SnapshotInv` adds what the
runner relies on between its steps: its transaction writes the item's object with
data no older than what is owed (`Working`), nothing is owed once it has committed
(`Settled`), and redis has what is owed and it decodes (`Current`).  Without
`Settled` the removal from redis could take data that nobody has written.

The same module has the theorems about the rows of the table, for transactions that
overlap in any number:

* `DeletesLeaveEnough` (`KeepsEnough`): a row that a DELETE picked has `Limit` newer ones
  among the rows its transaction sees, and keeps them, since another transaction can only
  delete rows that have `Limit` newer ones themselves (`Spared`); for that, rows must be
  told apart by their ids, also those that are not committed yet (`TableInv`).
* `LimitAlmostKept` (`LimitNearlyKept`).  No relation between the rows of one state is
  inductive here: how many rows may be too many depends on which DELETEs had started when
  the others committed.  The invariant `Accounted` therefore says that there *is* an
  account of it: the moments at which the DELETEs under way started, the last DELETE that
  was committed, and the tasks that committed beside each.  Every task is in it at most
  once, because it ends one transaction before it starts the next.  The account is
  existentially quantified, so the model needs no history for it.
* `NeverWrittenTwice` (`WrittenOnce`): `DataInv` says of every version where it can be.
  What waits in the channel, or belongs to a request, is in no row and not in redis
  (`QueueNew`, `RequestsNew`); what redis and the table both have was committed in the
  runner's step before and is removed in the next (`RemovedNext`); and what the runner
  writes is not in the table yet (`RunnerNew`).  The exception `unremoved` is where redis
  refused to remove.

`CollabBroadcastProofs` proves the type invariant and `NoUpdateMissed` for any
finite set of clients, any updates, any capacity and any number of init syncs.
`NoUpdateMissed` is not inductive, since it says nothing of what is missing when the
reply to an init sync is at last accepted, or refused.  `BroadcastInv` adds
`Complete`: *each* reply the client would accept brings, together with its document
and the broadcasts that are still to come, the whole document.  For this it needs
that a client has what it sends (`Own`), because its own updates are not forwarded to
it; that the group has the client's own subscription (`CurrentOwn`, `Named`); and
that an init sync on its way to the runner is the one the client waits for and nobody
has replied to it (`Numbered`, `Pending`), so that the renewal of the subscription
cannot follow the reply.

`BroadcastImplementsDocument` is the refinement of `CollabDocument`.  The invariant
`DeliveryInv` adds to `BroadcastInv` that whatever is under way to a client, as a reply, a
broadcast in the log or a message of a subscription, is of the group's document
(`OfDocument`), and that only a connected client sends, and only to one is anything sent
(`Live`).  Accepting a reply or a broadcast is then a `Learn`, whichever task sent it and
however late.

`CollabGroupsProofs` proves the type invariant and `LossExplained` for any users, policies
and updates and any number of groups, runners and failures.  `LossExplained` says nothing of
what a flush that ends later, or a group that is entered later, would overwrite.  `LossInv`
adds that there is at most one flush no reading has overtaken, and none beside a group or a
runner that has read (`Latest`); that its document, and that of a group, has everything that
can be read from the storage (`Covers`), so that writing it loses nothing; that a runner that
has read is about to enter a document that has it too (`ReadDocs`); that an overtaken flush
brings nothing that is not excused or in the document that is written after it (`Overtaken`),
so that the one after it still covers the row; and that a snapshot, and whatever redis may
have, is no newer than what is kept (`SnapshotOld`, `VersionsOld`), so that reading it
instead loses no more than the difference.  `OneGroup` says that only a group has
subscribers, and that one runner alone enters no group beside another; `Blank` that a runner
has no document before it has read one.

`GroupsImplementDocument` is the refinement of `CollabDocument`.  Its invariant adds
`Originated`: documents, flushes, the row, redis, the snapshot and what the runners have read
have nothing that was neither stored at first nor made by a client.  The flushes that end
and the row that stops to decode are stutters, the tick and a crash close the document, and
the insertion of a group is a `Load`, which may bring back an older document or an empty one.
With several runners (`Replaceable`) a `Load` may come while somebody is subscribed, and takes
everybody else's subscription away; `DocumentGrowsWhileSubscribed`
(`SubscribedDocumentGrows`) says that this is the only step in which the document goes back
for somebody who stays subscribed.

`MembersProofs` proves the type invariant, `MembersAdmitted`, `OwnerStays` and
`CacheIsPermitted` for any finite sets of users, workspaces and documents and any number of
requests and restarts.  `MembersAdmitted` is not inductive: a notice only brings a policy
if it is about the table its queue is for, and a commit only writes a row if the request
that waits is well formed (`Shapes`); for the cache, the answers of checks that are not
stored yet have to be permitted too (`ChecksPermitted`).  The proof rests on what
`remove_policy` does (`RemovedNothing`): it compares an object with a uid, so that policies
only grow while the server runs.  `OnlyRestartRevokes` states that as an action property.
If `remove_policy` removed what it is asked to, `MembersAdmitted` and `CacheIsPermitted`
would need other reasons, and `OwnerStays` would not: the proof shows on what the first
two depend.

`CollabStorageProofs` proves the type invariant, `CacheFresh`, and that `CollabStorage`
implements `CollabStore`, for any collabs, batches and number of requests at once.
`StorageInv` adds the row locks, as the fact that no two open transactions have written
the same collab (`Exclusive`); that what a transaction has cached is what redis has,
unless the collab is excused (`RequestOK`); and that whatever is stored was offered by a
request that was allowed to (`StoredOK`).  The refinement is proved step by step: upserts,
cache writes, queries and refills are stutters, and a commit is the store's write of the
whole batch.

`ClientProofs` has the theorems of the two clients that talk to the cloud:

* `HttpTypes` and `NeverSentStale` (`SentFresh`), for any callers, lifetimes and limits.
  `HttpInv` says what a call has in each of its steps (`Stepwise`) and dates the tokens
  (`Dated`): one that was found about to expire still is, the answer of GoTrue is not, and
  who was told Ok has a later one.  It needs `Buffer <= Lifetime`: if GoTrue handed out
  tokens that are already about to expire, a refresh would bring nothing newer.
* `SessionNeverAges`: as long as there is a session, its token never goes back to one that
  expires earlier, however late a refresh or a sign-in is answered.
* `WSTypes` and `OneSenderAndPinger` (`OneOfEach`), for any constants.  In `WSInv`, `Owned`
  says that the sender that nobody told to stop is the one whose handle the client has, even
  when `connect` has still to start it, and so is the pinger.  For the types, the queue and
  the batches on their way have only what was published (`Shaped`), and there is an
  aggregator for each connection that is up at the most: that a connection stays up
  whatever its tasks do (`StayUp`) keeps the number of aggregators below `MaxConns`.
  `BatchType` is what `next_batch_message` returns; that it finds an end of the batch is an
  instance of the least-number principle.

Assumptions on constants are what the code or the shape of the model gives: finite sets of
users, collabs and request tasks; values that are told apart (`None` is no user, no token
and no record); a limit of at least one; batches that are not empty (an empty one is
refused before a transaction is opened).

Only model-checked, and why:

* Liveness: all `Eventually...` properties, `QueuedIsWritten`, `GroupsBecomeInactive`,
  `PingNotices`, `MessagesAreSent` and `WaitersLeave`.  They rest on fairness, which is out
  of the prover's reach.
* With merging, what becomes of an update when the network loses messages: it may be lost
  (section 3), so there is no property to prove.

## 5. Not modelled

* File storage: one request writes a blob under its hash and then its metadata; it shares
  no state with the rest.
* Redis streams (`lib/collab-stream`): a wrapper of redis commands that no other crate
  uses.
* The id generator: arithmetic on a clock (see the remark in section 3).
* Templates, encryption, the GoTrue and AI clients, metrics and configuration: library
  calls, data and start-up code without a state machine of their own.
* Of the modelled components: what section 2 lists as left out.

## 6. Plan

Every invariant, action property and refinement the runs check is proved.  What would
extend the project is more of the code: reads of pending snapshots
(`snapshot_control.rs:151`), the limits of the actors' mailboxes, and the id generator as
arithmetic on its clock (`snowflake/src/lib.rs:32`).  Of the abstract
specifications, `CollabDocument` could say what a replica and the document have in common
after a client has joined, so that convergence is stated once for the three modules that
implement it.
