------------------------- MODULE CollabStorageProofs -------------------------
(* Proofs about CollabStorage, for any collabs, data, batches and number of  *)
(* requests handled at once: its invariants, and that it implements          *)
(* CollabStore.                                                              *)
EXTENDS CollabStorage, TLAPS

(* What a request has written in its transaction and given to redis; one     *)
(* that does not write has done neither.                                     *)
WrittenBy(q) == IF q # None /\ q.op \in {"write", "batch"} THEN Written(q) ELSE {}
CachedBy(q) == IF q # None /\ q.op \in {"write", "batch"} THEN Cached(q) ELSE {}

(* What a request knows: where a write is in its batch, that its data was    *)
(* checked, and that redis has its data or nothing of what it has cached; of *)
(* a read, that what it got can be decoded and was offered.                  *)
RequestOK(q) ==
  /\ q # None /\ q.op \in {"write", "batch"} =>
       /\ q.pos \in 1 .. Len(q.batch) + 1
       /\ q.step # "check" => q.pos \in DOMAIN q.batch
       /\ q.step # "check" \/ q.pos > 1 => q.data \notin Undecodable
       /\ \A o \in Written(q) : q.data \in offered[o]
       /\ \A o \in Cached(q) : o \in excused \/ mem_cache[o] \in {None, q.data}
  /\ q # None /\ q.op \in {"get", "batch_get"} =>
       /\ q.got \notin Undecodable
       /\ q.step = "fill" => q.got # None
       /\ q.got = None \/ q.got \in offered[q.o]

(* Whatever is stored was offered and can be decoded.                        *)
StoredOK(o) ==
  /\ mem_cache[o] # None => mem_cache[o] \in offered[o]
  /\ af_collab[o] # None => /\ af_collab[o].blob \in offered[o]
                            /\ af_collab[o].blob \notin Undecodable

(* The row lock: no two transactions have written the same collab.           *)
Exclusive ==
  \A s, t \in Slots : s # t => WrittenBy(requests[s]) \cap WrittenBy(requests[t]) = {}

(* Redis is up to date on a collab that no open transaction has cached.      *)
Fresh(o) ==
  Live(o) /\ mem_cache[o] # None /\ o \notin excused /\ (\A s \in Slots : o \notin CachedBy(requests[s]))
    => mem_cache[o] = af_collab[o].blob

(* The inductive invariant.                                                  *)
StorageInv ==
  /\ TypeOK
  /\ \A s \in Slots : RequestOK(requests[s])
  /\ \A o \in Objects : StoredOK(o) /\ Fresh(o)
  /\ Exclusive

USE AccessAssumption, StorageAssumption, NoneAssumption

-----------------------------------------------------------------------------
(* The types of a state, to be cited.                                        *)
LEMMA Typed ==
  ASSUME StorageInv
  PROVE  /\ AccessTypeOK
         /\ af_collab \in [Objects -> Row \cup {None}]
         /\ mem_cache \in [Objects -> (Data \ Undecodable) \cup {None}]
         /\ requests \in [Slots -> Requests \cup {None}]
         /\ asked \in 0 .. MaxRequests /\ failures \in 0 .. MaxFailures
         /\ offered \in [Objects -> SUBSET Data] /\ excused \subseteq Objects
  BY DEF StorageInv, TypeOK

(* The operation of a request tells its kind.                                *)
LEMMA KindOf ==
  ASSUME NEW q \in Requests
  PROVE  /\ q.op \in {"write", "batch"} => q \in WriteRequest
         /\ q.op \in {"get", "batch_get"} => q \in ReadRequest
         /\ q.op = "delete" => q \in DeleteRequest
         /\ q.op = "answer" => q \in Answered
  BY DEF Requests, WriteRequest, ReadRequest, DeleteRequest, Answered

(* A request is not None.                                                    *)
LEMMA NotNone ==
  ASSUME NEW q
  PROVE  q \in Row \cup WriteRequest \cup ReadRequest \cup DeleteRequest \cup Answered => q # None
  BY DEF Requests

(* A batch is a sequence of collabs that is not empty.                       *)
LEMMA BatchType ==
  ASSUME NEW q \in WriteRequest
  PROVE  /\ q.batch \in Seq(Objects) /\ Len(q.batch) \in Nat /\ Len(q.batch) > 0
         /\ DOMAIN q.batch = 1 .. Len(q.batch)
<1>1. q.batch \in Batches \cup {<<o>> : o \in Objects}
  BY DEF WriteRequest
<1>2. ASSUME NEW b \in Seq(Objects), b # <<>>
      PROVE  Len(b) \in Nat /\ Len(b) > 0 /\ DOMAIN b = 1 .. Len(b)
  BY <1>2
<1>3. ASSUME NEW o \in Objects, q.batch = <<o>>
      PROVE  q.batch \in Seq(Objects) /\ q.batch # <<>>
  BY <1>3
<1>4. q.batch \in Seq(Objects) /\ q.batch # <<>>
  BY <1>1, <1>3
<1>. QED  BY <1>2, <1>4

(* How the written part of a batch grows.                                    *)
LEMMA BeforeFacts ==
  ASSUME NEW q \in WriteRequest, NEW n \in Nat
  PROVE  /\ Before(q, n) \subseteq Objects
         /\ Before(q, 1) = {}
         /\ Before(q, n) \subseteq Before(q, n + 1)
         /\ n \in DOMAIN q.batch => Before(q, n + 1) = Before(q, n) \cup {q.batch[n]}
         /\ n > Len(q.batch) => Before(q, n) = InBatch(q)
<1>1. /\ q.batch \in Seq(Objects) /\ Len(q.batch) \in Nat
      /\ DOMAIN q.batch = 1 .. Len(q.batch)
  BY BatchType
<1>2. \A x : \A m \in Nat : x \in Before(q, m) <=> \E i \in DOMAIN q.batch : i < m /\ x = q.batch[i]
  BY DEF Before
<1>3. Before(q, n) \subseteq Objects
  BY <1>1, <1>2
<1>4. Before(q, 1) = {}
  BY <1>1, <1>2
<1>5. Before(q, n) \subseteq Before(q, n + 1)
  BY <1>1, <1>2
<1>6. n \in DOMAIN q.batch => Before(q, n + 1) = Before(q, n) \cup {q.batch[n]}
  <2>. SUFFICES ASSUME n \in DOMAIN q.batch
                PROVE  Before(q, n + 1) = Before(q, n) \cup {q.batch[n]}
    OBVIOUS
  <2>1. \A i \in DOMAIN q.batch : i < n + 1 <=> (i < n \/ i = n)
    BY <1>1
  <2>2. \A x : x \in Before(q, n + 1) <=> x \in Before(q, n) \/ x = q.batch[n]
    BY <1>2, <2>1
  <2>. QED  BY <2>2
<1>7. n > Len(q.batch) => Before(q, n) = InBatch(q)
  <2>. SUFFICES ASSUME n > Len(q.batch)
                PROVE  Before(q, n) = InBatch(q)
    OBVIOUS
  <2>1. \A i \in DOMAIN q.batch : i < n
    BY <1>1
  <2>. QED  BY <1>2, <2>1 DEF InBatch
<1>. QED  BY <1>3, <1>4, <1>5, <1>6, <1>7

(* What a write has cached it has written.                                   *)
LEMMA CachedWritten ==
  ASSUME NEW q \in Requests \cup {None}
  PROVE  CachedBy(q) \subseteq WrittenBy(q) /\ WrittenBy(q) \subseteq Objects
<1>1. CASE q # None /\ q.op \in {"write", "batch"}
  <2>1. q \in WriteRequest
    BY <1>1, KindOf
  <2>2. q.pos \in Nat /\ q.pos + 1 \in Nat
    BY <2>1 DEF WriteRequest
  <2>3. Before(q, q.pos) \subseteq Before(q, q.pos + 1) /\ Before(q, q.pos + 1) \subseteq Objects
    BY <2>1, <2>2, BeforeFacts
  <2>. QED  BY <1>1, <2>3 DEF CachedBy, WrittenBy, Cached, Written
<1>2. CASE ~(q # None /\ q.op \in {"write", "batch"})
  BY <1>2 DEF CachedBy, WrittenBy
<1>. QED  BY <1>1, <1>2

(* Who holds the lock on a collab.                                           *)
LEMMA WritersAre ==
  ASSUME NEW o
  PROVE  Writers(o) = {t \in Slots : o \in WrittenBy(requests[t])}
  BY DEF Writers, WrittenBy, Doing

-----------------------------------------------------------------------------
(* A request still knows what it knew, if redis still has its data or is     *)
(* excused.                                                                  *)
LEMMA RequestKept ==
  ASSUME NEW q \in Requests \cup {None}, RequestOK(q), StorageInv,
         \A o \in Objects : offered[o] \subseteq offered'[o],
         \A o \in CachedBy(q) : o \in excused' \/ mem_cache'[o] \in {None, q.data}
  PROVE  RequestOK(q)'
<1>1. CASE q # None /\ q.op \in {"write", "batch"}
  <2>1. WrittenBy(q) = Written(q) /\ CachedBy(q) = Cached(q) /\ Written(q) \subseteq Objects
    BY <1>1, CachedWritten DEF WrittenBy, CachedBy
  <2>. QED  BY <1>1, <2>1 DEF RequestOK
<1>2. CASE q # None /\ q.op \in {"get", "batch_get"}
  <2>1. q.o \in Objects
    BY <1>2, KindOf DEF ReadRequest
  <2>. QED  BY <1>2, <2>1 DEF RequestOK
<1>. QED  BY <1>1, <1>2 DEF RequestOK

(* A change of the cache at one collab and what the requests know.           *)
LEMMA CacheChanged ==
  ASSUME StorageInv, NEW s \in Slots, NEW o \in Objects,
         \A p \in Objects : p # o => mem_cache'[p] = mem_cache[p] /\ (p \in excused => p \in excused'),
         \/ mem_cache'[o] = None \/ o \in excused'
         \/ \A t \in Slots \ {s} : o \notin CachedBy(requests[t])
  PROVE  \A t \in Slots \ {s} : \A p \in CachedBy(requests[t]) :
           p \in excused' \/ mem_cache'[p] \in {None, requests[t].data}
<1>. SUFFICES ASSUME NEW t \in Slots \ {s}, NEW p \in CachedBy(requests[t])
              PROVE  p \in excused' \/ mem_cache'[p] \in {None, requests[t].data}
  OBVIOUS
<1>1. requests[t] \in Requests \cup {None}
  BY Typed
<1>2. p \in Objects
  BY <1>1, CachedWritten
<1>3. p \in excused \/ mem_cache[p] \in {None, requests[t].data}
  BY DEF StorageInv, RequestOK, CachedBy
<1>. QED  BY <1>2, <1>3

(* An excuse more is no harm.                                                *)
LEMMA CacheUnchanged ==
  ASSUME StorageInv, mem_cache' = mem_cache, excused \subseteq excused', NEW s
  PROVE  \A t \in Slots \ {s} : \A p \in CachedBy(requests[t]) :
           p \in excused' \/ mem_cache'[p] \in {None, requests[t].data}
  BY DEF StorageInv, RequestOK, CachedBy

(* What one slot does keeps the requests of the others.                      *)
LEMMA Others ==
  ASSUME StorageInv, NEW s \in Slots, NEW q \in Requests \cup {None}, Becomes(s, q),
         \A o \in Objects : offered[o] \subseteq offered'[o],
         \A t \in Slots \ {s} : \A p \in CachedBy(requests[t]) :
           p \in excused' \/ mem_cache'[p] \in {None, requests[t].data},
         RequestOK(q)'
  PROVE  /\ \A t \in Slots : RequestOK(requests[t])'
         /\ requests' \in [Slots -> Requests \cup {None}]
         /\ requests'[s] = q
         /\ \A t \in Slots \ {s} : requests'[t] = requests[t]
<1>1. /\ requests' \in [Slots -> Requests \cup {None}]
      /\ requests'[s] = q
      /\ \A t \in Slots \ {s} : requests'[t] = requests[t]
  BY Typed DEF Becomes
<1>2. ASSUME NEW t \in Slots PROVE RequestOK(requests[t])'
  <2>1. CASE t = s
    BY <1>1, <2>1 DEF RequestOK
  <2>2. CASE t # s
    <3>. DEFINE r == requests[t]
    <3>1. r \in Requests \cup {None} /\ RequestOK(r)
      BY Typed DEF StorageInv
    <3>2. PICK x : x = r
      OBVIOUS
    <3>3. RequestOK(x)'
      BY <2>2, <3>1, <3>2, RequestKept
    <3>. QED  BY <1>1, <2>2, <3>2, <3>3 DEF RequestOK
  <2>. QED  BY <2>1, <2>2
<1>. QED  BY <1>1, <1>2

(* A slot that writes no further collab keeps the locks apart.               *)
LEMMA ExclusiveKept ==
  ASSUME StorageInv, NEW s \in Slots, NEW q, requests'[s] = q,
         \A t \in Slots \ {s} : requests'[t] = requests[t],
         WrittenBy(q) \subseteq WrittenBy(requests[s])
  PROVE  Exclusive'
<1>1. \A t \in Slots : WrittenBy(requests'[t]) \subseteq WrittenBy(requests[t])
  OBVIOUS
<1>2. ASSUME NEW r \in Slots, NEW t \in Slots, r # t
      PROVE  WrittenBy(requests'[r]) \cap WrittenBy(requests'[t]) = {}
  <2>1. WrittenBy(requests[r]) \cap WrittenBy(requests[t]) = {}
    BY <1>2 DEF StorageInv, Exclusive
  <2>2. /\ WrittenBy(requests'[r]) \subseteq WrittenBy(requests[r])
        /\ WrittenBy(requests'[t]) \subseteq WrittenBy(requests[t])
    BY <1>1
  <2>. QED  BY <2>1, <2>2
<1>. QED  BY <1>2 DEF Exclusive, WrittenBy, Written, Before

(* A collab whose row and whose entry stay as they are stays fresh, unless a *)
(* request that had cached it lets go of it without an excuse.               *)
LEMMA FreshKept ==
  ASSUME StorageInv, NEW s \in Slots, NEW q, requests'[s] = q,
         \A t \in Slots \ {s} : requests'[t] = requests[t],
         NEW o \in Objects, mem_cache'[o] = mem_cache[o], af_collab'[o] = af_collab[o],
         o \in excused => o \in excused',
         o \in CachedBy(requests[s]) => o \in excused' \/ o \in CachedBy(q)
  PROVE  Fresh(o)'
<1>1. ASSUME Live(o)', mem_cache'[o] # None, o \notin excused',
             \A t \in Slots : o \notin CachedBy(requests'[t])
      PROVE  mem_cache'[o] = af_collab'[o].blob
  <2>1. Live(o) /\ mem_cache[o] # None /\ o \notin excused
    BY <1>1 DEF Live, is_collab_exists
  <2>2. \A t \in Slots : o \notin CachedBy(requests[t])
    BY <1>1
  <2>. QED  BY <2>1, <2>2 DEF StorageInv, Fresh
<1>. QED  BY <1>1 DEF Fresh, CachedBy, Cached, Before

(* update_access_level_policy keeps the policies well formed.                *)
LEMMA AccessKept ==
  ASSUME AccessTypeOK, NEW u \in Users, NEW o \in Objects
  PROVE  /\ update_access_level_policy(u, o, "FullAccess") => AccessTypeOK'
         /\ UNCHANGED accessVars => AccessTypeOK'
<1>1. UNCHANGED accessVars => AccessTypeOK'
  BY DEF accessVars, AccessTypeOK
<1>. SUFFICES ASSUME update_policy(u, Collab(o), "FullAccess") PROVE AccessTypeOK'
  BY <1>1 DEF update_access_level_policy
<1>2. PolicyOf(u, Collab(o), "FullAccess") \in Policy
  BY DEF PolicyOf, Policy, Object, AFAccessLevel
<1>3. policies' \subseteq Policy
  BY <1>2 DEF update_policy, Updated, AccessTypeOK
<1>4. Change(u, Collab(o)) \in Seq(Watched)
  BY DEF Change
<1>5. changes' \in Seq(Watched)
  BY <1>4 DEF update_policy, AccessTypeOK
<1>. QED  BY <1>3, <1>5 DEF update_policy, AccessTypeOK

(* A step of one request that touches neither rows nor redis.                *)
LEMMA QuietStep ==
  ASSUME StorageInv, AccessTypeOK', UNCHANGED <<stored, history>>,
         asked' \in 0 .. MaxRequests, failures' \in 0 .. MaxFailures,
         NEW s \in Slots, NEW q \in Requests \cup {None}, Becomes(s, q), RequestOK(q),
         WrittenBy(q) \subseteq WrittenBy(requests[s]),
         CachedBy(requests[s]) \subseteq CachedBy(q)
  PROVE  StorageInv'
<1>1. UNCHANGED <<af_collab, mem_cache, offered, excused>>
  BY DEF stored, history
<1>2. RequestOK(q)'
  BY <1>1 DEF RequestOK
<1>3. \A t \in Slots \ {s} : \A p \in CachedBy(requests[t]) :
        p \in excused' \/ mem_cache'[p] \in {None, requests[t].data}
  BY <1>1, CacheUnchanged
<1>4. /\ \A t \in Slots : RequestOK(requests[t])'
      /\ requests' \in [Slots -> Requests \cup {None}]
      /\ requests'[s] = q
      /\ \A t \in Slots \ {s} : requests'[t] = requests[t]
  BY <1>1, <1>2, <1>3, Others
<1>5. Exclusive'
  BY <1>4, ExclusiveKept
<1>6. \A o \in Objects : Fresh(o)'
  BY <1>1, <1>4, FreshKept
<1>7. \A o \in Objects : StoredOK(o)'
  BY <1>1 DEF StorageInv, StoredOK
<1>8. TypeOK'
  BY <1>1, <1>4, Typed DEF TypeOK
<1>. QED  BY <1>4, <1>5, <1>6, <1>7, <1>8 DEF StorageInv

(* A request that does not write.                                            *)
LEMMA NoWriter ==
  ASSUME NEW q, q = None \/ q.op \notin {"write", "batch"}
  PROVE  WrittenBy(q) = {} /\ CachedBy(q) = {}
  BY DEF WrittenBy, CachedBy

(* The steps of requests that read, and of those that end.                   *)
LEMMA ReadingStep ==
  ASSUME StorageInv, UNCHANGED <<accessVars, stored, history>>,
         asked' \in 0 .. MaxRequests, failures' \in 0 .. MaxFailures,
         NEW s \in Slots, requests[s] = None \/ requests[s].op \notin {"write", "batch"},
         NEW q \in Requests \cup {None}, Becomes(s, q), RequestOK(q),
         q # None /\ q.op \in {"write", "batch"} => q.step = "check" /\ q.pos = 1
  PROVE  StorageInv'
<1>1. CachedBy(requests[s]) = {}
  BY NoWriter
<1>2. WrittenBy(q) = {}
  <2>1. CASE q # None /\ q.op \in {"write", "batch"}
    <3>1. q \in WriteRequest /\ Written(q) = Before(q, 1)
      BY <2>1, KindOf DEF Written
    <3>. QED  BY <3>1, BeforeFacts DEF WrittenBy
  <2>. QED  BY <2>1 DEF WrittenBy
<1>3. AccessTypeOK'
  BY Typed DEF accessVars, AccessTypeOK
<1>. QED  BY <1>1, <1>2, <1>3, QuietStep

(* The failures that are counted.                                            *)
LEMMA FailsType ==
  ASSUME StorageInv, Fails \/ UNCHANGED failures
  PROVE  failures' \in 0 .. MaxFailures
  BY Typed DEF Fails

(* A request arrives.                                                        *)
LEMMA HandleStep ==
  ASSUME StorageInv, NEW s \in Slots, Handle(s)
  PROVE  StorageInv'
<1>1. requests[s] = None /\ asked < MaxRequests
  BY DEF Handle, Free
<1>2. ASSUME NEW q \in Requests, Start(s, q), RequestOK(q),
             q.op \in {"write", "batch"} => q.step = "check" /\ q.pos = 1
      PROVE  StorageInv'
  <2>1. /\ UNCHANGED <<accessVars, stored, failures, history>> /\ Becomes(s, q)
        /\ asked' \in 0 .. MaxRequests
    BY <1>1, <1>2, Typed DEF Start, Becomes
  <2>2. failures' \in 0 .. MaxFailures
    BY <2>1, Typed
  <2>. QED  BY <1>1, <1>2, <2>1, <2>2, ReadingStep
<1>3. ASSUME NEW op \in {"write", "batch"}, NEW u \in Users, NEW w \in Workspaces,
             NEW b \in Batches \cup {<<o>> : o \in Objects}, NEW data \in Data,
             insert_or_update_collab(s, op, u, w, b, data)
      PROVE  StorageInv'
  <2>. DEFINE q == [op |-> op, u |-> u, w |-> w, batch |-> b, data |-> data, pos |-> 1,
                    step |-> "check"]
  <2>1. q \in WriteRequest /\ q.op = op /\ q.pos = 1 /\ q.step = "check" /\ Start(s, q)
    BY <1>3 DEF WriteRequest, insert_or_update_collab
  <2>. HIDE DEF q
  <2>2. Len(q.batch) \in Nat /\ Before(q, 1) = {}
    BY <2>1, BatchType, BeforeFacts
  <2>3. Written(q) = {} /\ Cached(q) = {}
    BY <2>1, <2>2 DEF Written, Cached
  <2>4. RequestOK(q)
    BY <2>1, <2>2, <2>3 DEF RequestOK
  <2>. QED  BY <1>2, <2>1, <2>4 DEF Requests
<1>4. ASSUME NEW op \in {"get", "batch_get"}, NEW o \in Objects, Start(s, ReadOf(op, o))
      PROVE  StorageInv'
  <2>. DEFINE q == ReadOf(op, o)
  <2>0. 0 \in 0 .. MAX_ATTEMPTS - 1
    OBVIOUS
  <2>1. /\ q \in ReadRequest /\ q.op \notin {"write", "batch"} /\ q.got = None
        /\ q.step = "mem"
    BY <2>0 DEF ReadRequest, ReadOf
  <2>. HIDE DEF q
  <2>2. RequestOK(q)
    BY <2>1 DEF RequestOK
  <2>. QED  BY <1>2, <1>4, <2>1, <2>2 DEF Requests, q
<1>5. ASSUME NEW o \in Objects, Start(s, [op |-> "delete", o |-> o, step |-> "mem"])
      PROVE  StorageInv'
  <2>. DEFINE q == [op |-> "delete", o |-> o, step |-> "mem"]
  <2>1. q \in DeleteRequest /\ q.op = "delete"
    BY DEF DeleteRequest
  <2>. HIDE DEF q
  <2>2. RequestOK(q)
    BY <2>1 DEF RequestOK
  <2>. QED  BY <1>2, <1>5, <2>1, <2>2 DEF Requests, q
<1>6. CASE create_collab_handler(s)
  BY <1>3, <1>6 DEF create_collab_handler
<1>7. CASE update_collab_handler(s)
  BY <1>3, <1>7 DEF update_collab_handler
<1>8. CASE create_collab_list_handler(s) \/ batch_create_collab_handler(s)
  BY <1>3, <1>8 DEF create_collab_list_handler, batch_create_collab_handler
<1>9. CASE get_collab_handler(s) \/ create_collab_snapshot_handler(s)
  BY <1>4, <1>9 DEF get_collab_handler, create_collab_snapshot_handler, get_collab_encoded
<1>10. CASE batch_get_collab_handler(s)
  BY <1>4, <1>10 DEF batch_get_collab_handler, batch_get_collab
<1>11. CASE delete_collab_handler(s)
  BY <1>5, <1>11 DEF delete_collab_handler, remove_collab
<1>. QED  BY <1>6, <1>7, <1>8, <1>9, <1>10, <1>11 DEF Handle

-----------------------------------------------------------------------------
(* An answer is a request of its own kind that owes nothing.                 *)
LEMMA AnswerOK ==
  ASSUME NEW o \in Objects, NEW result \in Data \cup {NotFound, Failed}
  PROVE  LET q == [op |-> "answer", o |-> o, result |-> result]
         IN  q \in Answered /\ q.op = "answer" /\ RequestOK(q)
<1>. DEFINE q == [op |-> "answer", o |-> o, result |-> result]
<1>1. q \in Answered /\ q.op = "answer"
  BY DEF Answered
<1>2. RequestOK(q)
  <2>. HIDE DEF q
  <2>. QED  BY <1>1 DEF RequestOK
<1>. QED  BY <1>1, <1>2

(* The steps of a read before it fills the cache.                            *)
LEMMA GetStep ==
  ASSUME StorageInv, NEW s \in Slots,
         \/ GetFromMem(s) \/ GetFromDisk(s) \/ batch_get_encode_collab(s)
         \/ batch_select_collab_blob(s)
  PROVE  StorageInv'
<1>. DEFINE q == requests[s]
<1>1. /\ q # None /\ q.op \in {"get", "batch_get"}
      /\ UNCHANGED <<accessVars, stored, asked, history>>
      /\ Fails \/ UNCHANGED failures
  BY DEF GetFromMem, GetFromDisk, batch_get_encode_collab, batch_select_collab_blob, Doing,
         get_encode_collab
<1>2. q \in ReadRequest /\ RequestOK(q)
  BY <1>1, Typed, KindOf DEF StorageInv
<1>3. /\ q.o \in Objects /\ q.attempts \in 0 .. MAX_ATTEMPTS - 1
      /\ q.got \in Data \cup {None}
  BY <1>2 DEF ReadRequest
<1>4. failures' \in 0 .. MaxFailures /\ asked' \in 0 .. MaxRequests
  BY <1>1, FailsType, Typed
<1>5. /\ mem_cache[q.o] # None => mem_cache[q.o] \in Data
      /\ Live(q.o) => /\ af_collab[q.o].blob \in Data \ Undecodable
                      /\ af_collab[q.o].blob \in offered[q.o]
  <2>1. mem_cache[q.o] # None => mem_cache[q.o] \in Data
    BY <1>3, Typed
  <2>2. Live(q.o) => af_collab[q.o] \in Row
    BY <1>3, Typed DEF Live, is_collab_exists
  <2>. QED  BY <1>3, <2>1, <2>2 DEF StorageInv, StoredOK, Live, is_collab_exists, Row
<1>6. \E r \in Requests : Becomes(s, r) /\ RequestOK(r) /\ r.op \notin {"write", "batch"}
  <2>1. ASSUME NEW result \in Data \cup {NotFound, Failed}, GiveAnswer(s, result)
        PROVE  \E r \in Requests : Becomes(s, r) /\ RequestOK(r) /\ r.op \notin {"write", "batch"}
    BY <1>3, <2>1, AnswerOK DEF GiveAnswer, Requests
  <2>2. ASSUME NEW r \in ReadRequest, r.op = q.op, r.o = q.o, Becomes(s, r),
               r.got = q.got, r.step # "fill"
        PROVE  \E x \in Requests : Becomes(s, x) /\ RequestOK(x) /\ x.op \notin {"write", "batch"}
    <3>1. RequestOK(r)
      BY <1>1, <1>2, <2>2 DEF RequestOK
    <3>. QED  BY <1>1, <2>2, <3>1 DEF Requests
  <2>3. CASE get_encode_collab(s)
    <3>1. CASE mem_cache[q.o] # None /\ GiveAnswer(s, mem_cache[q.o])
      BY <1>5, <2>1, <3>1
    <3>2. CASE Becomes(s, [q EXCEPT !.step = "disk"])
      <4>. DEFINE r == [q EXCEPT !.step = "disk"]
      <4>1. r \in ReadRequest /\ r.op = q.op /\ r.o = q.o /\ r.got = q.got /\ r.step = "disk"
        BY <1>2 DEF ReadRequest
      <4>. HIDE DEF r
      <4>. QED  BY <2>2, <3>2, <4>1 DEF r
    <3>. QED  BY <2>3, <3>1, <3>2 DEF get_encode_collab
  <2>4. CASE GetFromDisk(s)
    <3>1. CASE /\ Live(q.o)
               /\ Becomes(s, [q EXCEPT !.step = "fill", !.got = af_collab[q.o].blob])
      <4>. DEFINE r == [q EXCEPT !.step = "fill", !.got = af_collab[q.o].blob]
      <4>1. /\ r \in ReadRequest /\ r.op = q.op /\ r.o = q.o /\ r.step = "fill"
            /\ r.got = af_collab[q.o].blob
        BY <1>2, <1>5, <3>1 DEF ReadRequest
      <4>. HIDE DEF r
      <4>2. RequestOK(r)
        BY <1>1, <1>5, <3>1, <4>1 DEF RequestOK
      <4>. QED  BY <1>1, <3>1, <4>1, <4>2 DEF Requests, r
    <3>2. CASE GiveAnswer(s, NotFound) \/ GiveAnswer(s, Failed)
      BY <2>1, <3>2
    <3>3. CASE q.attempts < MAX_ATTEMPTS - 1 /\ Becomes(s, [q EXCEPT !.attempts = @ + 1])
      <4>. DEFINE r == [q EXCEPT !.attempts = @ + 1]
      <4>1. q.attempts + 1 \in 0 .. MAX_ATTEMPTS - 1
        BY <1>3, <3>3
      <4>2. /\ r \in ReadRequest /\ r.op = q.op /\ r.o = q.o /\ r.got = q.got
            /\ r.step = q.step
        BY <1>2, <4>1 DEF ReadRequest
      <4>3. q.step = "disk"
        BY <2>4 DEF GetFromDisk
      <4>. HIDE DEF r
      <4>. QED  BY <2>2, <3>3, <4>2, <4>3 DEF r
    <3>. QED  BY <2>4, <3>1, <3>2, <3>3 DEF GetFromDisk
  <2>5. CASE batch_select_collab_blob(s)
    <3>1. (IF Live(q.o) THEN af_collab[q.o].blob ELSE NotFound) \in Data \cup {NotFound, Failed}
      BY <1>5
    <3>. QED  BY <2>1, <2>5, <3>1 DEF batch_select_collab_blob
  <2>. QED  BY <2>3, <2>4, <2>5 DEF GetFromMem, batch_get_encode_collab
<1>. QED  BY <1>1, <1>4, <1>6, ReadingStep

(* The last step of a request that does not write.                           *)
LEMMA EndStep ==
  ASSUME StorageInv, NEW s \in Slots, requests[s] = None \/ requests[s].op \notin {"write", "batch"},
         Becomes(s, None), UNCHANGED <<accessVars, stored, counters, history>>
  PROVE  StorageInv'
<1>1. RequestOK(None)
  BY DEF RequestOK
<1>2. asked' \in 0 .. MaxRequests /\ failures' \in 0 .. MaxFailures
  BY Typed DEF counters
<1>. QED  BY <1>1, <1>2, ReadingStep

(* What is known of a request that writes.                                   *)
LEMMA WriterFacts ==
  ASSUME StorageInv, NEW s \in Slots, Doing(s, {"write", "batch"})
  PROVE  LET q == requests[s] IN
         /\ q # None /\ q.op \in {"write", "batch"} /\ q \in WriteRequest /\ RequestOK(q)
         /\ WrittenBy(q) = Written(q) /\ CachedBy(q) = Cached(q)
         /\ q.pos \in Nat /\ q.data \in Data /\ q.u \in Users /\ q.w \in Workspaces
         /\ q.pos \in DOMAIN q.batch => q.batch[q.pos] \in Objects
<1>. DEFINE q == requests[s]
<1>1. q # None /\ q.op \in {"write", "batch"} /\ q \in WriteRequest /\ RequestOK(q)
  BY Typed, KindOf DEF Doing, StorageInv
<1>2. WrittenBy(q) = Written(q) /\ CachedBy(q) = Cached(q)
  BY <1>1 DEF WrittenBy, CachedBy
<1>3. q.pos \in Nat /\ q.data \in Data /\ q.u \in Users /\ q.w \in Workspaces
  BY <1>1 DEF WriteRequest
<1>4. q.pos \in DOMAIN q.batch => q.batch[q.pos] \in Objects
  BY <1>1, BatchType
<1>. QED  BY <1>1, <1>2, <1>3, <1>4

(* The entries of a transaction that is rolled back are excused.             *)
LEMMA RollbackStep ==
  ASSUME StorageInv, NEW s \in Slots, Doing(s, {"write", "batch"}), Rollback(s), AccessTypeOK'
  PROVE  StorageInv'
<1>. DEFINE q == requests[s]
<1>1. /\ UNCHANGED <<af_collab, mem_cache, offered, asked, failures>> /\ Becomes(s, None)
      /\ excused' = excused \cup CachedBy(q)
  BY WriterFacts DEF Rollback, stored, counters
<1>2. CachedBy(q) \subseteq Objects
  BY Typed, CachedWritten
<1>3. \A t \in Slots \ {s} : \A p \in CachedBy(requests[t]) :
        p \in excused' \/ mem_cache'[p] \in {None, requests[t].data}
  BY <1>1, CacheUnchanged
<1>4. RequestOK(None)'
  BY DEF RequestOK
<1>5. /\ \A t \in Slots : RequestOK(requests[t])'
      /\ requests' \in [Slots -> Requests \cup {None}]
      /\ requests'[s] = None
      /\ \A t \in Slots \ {s} : requests'[t] = requests[t]
  BY <1>1, <1>3, <1>4, Others
<1>6. Exclusive'
  <2>1. WrittenBy(None) \subseteq WrittenBy(requests[s])
    BY NoWriter
  <2>. QED  BY <1>5, <2>1, ExclusiveKept
<1>7. \A o \in Objects : Fresh(o)'
  BY <1>1, <1>5, FreshKept
<1>8. \A o \in Objects : StoredOK(o)'
  BY <1>1 DEF StorageInv, StoredOK
<1>9. TypeOK'
  BY <1>1, <1>2, <1>5, Typed DEF TypeOK
<1>. QED  BY <1>5, <1>6, <1>7, <1>8, <1>9 DEF StorageInv

(* The check of the next collab of a batch.                                  *)
LEMMA CheckStep ==
  ASSUME StorageInv, NEW s \in Slots, Check(s)
  PROVE  StorageInv'
<1>. DEFINE q == requests[s]
            o == q.batch[q.pos]
<1>1. Doing(s, {"write", "batch"}) /\ q.step = "check" /\ q.pos \in DOMAIN q.batch
  BY DEF Check
<1>2. /\ q # None /\ q.op \in {"write", "batch"} /\ q \in WriteRequest /\ RequestOK(q)
      /\ q.u \in Users /\ o \in Objects
  BY <1>1, WriterFacts
<1>3. AccessTypeOK'
  <2>1. update_access_level_policy(q.u, o, "FullAccess") \/ UNCHANGED accessVars
    BY DEF Check
  <2>. QED  BY <1>2, <2>1, Typed, AccessKept
<1>4. CASE Rollback(s)
  BY <1>1, <1>3, <1>4, RollbackStep
<1>5. CASE /\ q.data \notin Undecodable
           /\ Becomes(s, [q EXCEPT !.step = "upsert"]) /\ UNCHANGED <<stored, counters, history>>
  <2>. DEFINE r == [q EXCEPT !.step = "upsert"]
  <2>1. /\ r \in WriteRequest /\ r.op = q.op /\ r.pos = q.pos /\ r.batch = q.batch
        /\ r.data = q.data /\ r.step = "upsert"
    BY <1>2 DEF WriteRequest
  <2>2. Becomes(s, r) /\ UNCHANGED <<stored, counters, history>>
    BY <1>5
  <2>. HIDE DEF r
  <2>3. Written(r) = Written(q) /\ Cached(r) = Cached(q)
    BY <1>1, <2>1 DEF Written, Cached, Before
  <2>4. r \in Requests /\ r # None
    BY <2>1 DEF Requests
  <2>5. WrittenBy(r) = WrittenBy(q) /\ CachedBy(r) = CachedBy(q)
    BY <1>2, <2>1, <2>3, <2>4 DEF WrittenBy, CachedBy
  <2>6. RequestOK(r)
    BY <1>1, <1>2, <1>5, <2>1, <2>3, <2>4 DEF RequestOK
  <2>7. asked' \in 0 .. MaxRequests /\ failures' \in 0 .. MaxFailures
    BY <2>2, Typed DEF counters
  <2>. QED  BY <1>3, <2>2, <2>4, <2>5, <2>6, <2>7, QuietStep
<1>. QED  BY <1>4, <1>5 DEF Check

(* The write of a row takes the lock that no other transaction holds.        *)
LEMMA UpsertStep ==
  ASSUME StorageInv, NEW s \in Slots, insert_into_af_collab(s)
  PROVE  StorageInv'
<1>. DEFINE q == requests[s]
            o == q.batch[q.pos]
<1>1. /\ Doing(s, {"write", "batch"}) /\ q.step = "upsert" /\ ~Locked(o, s)
      /\ UNCHANGED accessVars
  BY DEF insert_into_af_collab
<1>2. /\ q # None /\ q.op \in {"write", "batch"} /\ q \in WriteRequest /\ RequestOK(q)
      /\ q.pos \in Nat /\ q.data \in Data
      /\ q.pos \in DOMAIN q.batch => o \in Objects
      /\ WrittenBy(q) = Written(q) /\ CachedBy(q) = Cached(q)
  BY <1>1, WriterFacts
<1>3. q.pos \in DOMAIN q.batch /\ q.data \notin Undecodable /\ o \in Objects
  BY <1>1, <1>2 DEF RequestOK
<1>4. AccessTypeOK'
  BY <1>1, Typed DEF accessVars, AccessTypeOK
<1>5. CASE Rollback(s)
  BY <1>1, <1>4, <1>5, RollbackStep
<1>6. CASE /\ Becomes(s, [q EXCEPT !.step = "cache"])
           /\ offered' = [offered EXCEPT ![o] = @ \cup {q.data}]
           /\ UNCHANGED <<stored, counters, excused>>
  <2>0. PICK r : r = [q EXCEPT !.step = "cache"]
    OBVIOUS
  <2>1. /\ r \in WriteRequest /\ r.op = q.op /\ r.pos = q.pos /\ r.batch = q.batch
        /\ r.data = q.data /\ r.step = "cache"
    BY <1>2, <2>0 DEF WriteRequest
  <2>2. Becomes(s, r) /\ UNCHANGED <<af_collab, mem_cache, asked, failures, excused>>
    BY <1>6, <2>0 DEF stored, counters
  <2>3. /\ Cached(r) = Cached(q) /\ Written(r) = Written(q) \cup {o}
    <3>1. Before(q, q.pos + 1) = Before(q, q.pos) \cup {o}
      BY <1>2, <1>3, BeforeFacts
    <3>2. \A n : Before(r, n) = Before(q, n)
      BY <2>1 DEF Before
    <3>3. Written(q) = Before(q, q.pos) /\ Cached(q) = Before(q, q.pos)
      BY <1>1 DEF Written, Cached
    <3>4. Written(r) = Before(r, q.pos + 1) /\ Cached(r) = Before(r, q.pos)
      BY <2>1 DEF Written, Cached
    <3>. QED  BY <3>1, <3>2, <3>3, <3>4
  <2>4. r \in Requests /\ r # None
    BY <2>1 DEF Requests
  <2>5. WrittenBy(r) = WrittenBy(q) \cup {o} /\ CachedBy(r) = CachedBy(q)
    BY <1>2, <2>1, <2>3, <2>4 DEF WrittenBy, CachedBy
  <2>6. /\ offered' \in [Objects -> SUBSET Data] /\ q.data \in offered'[o]
        /\ \A p \in Objects : offered[p] \subseteq offered'[p]
    BY <1>2, <1>3, <1>6, Typed
  <2>7. RequestOK(r)'
    <3>1. Written(q) \subseteq Objects
      BY <1>2, CachedWritten DEF Requests
    <3>2. \A p \in Written(r) : r.data \in offered'[p]
      BY <1>2, <2>1, <2>3, <2>6, <3>1 DEF RequestOK
    <3>3. \A p \in Cached(r) : p \in excused' \/ mem_cache'[p] \in {None, r.data}
      BY <1>2, <2>1, <2>2, <2>3 DEF RequestOK
    <3>4. r.pos \in 1 .. Len(r.batch) + 1
      BY <1>2, <2>1 DEF RequestOK
    <3>5. r.op \notin {"get", "batch_get"}
      BY <1>2, <2>1
    <3>. QED  BY <1>3, <2>1, <3>2, <3>3, <3>4, <3>5 DEF RequestOK, Written, Cached, Before
  <2>8. \A t \in Slots \ {s} : \A p \in CachedBy(requests[t]) :
          p \in excused' \/ mem_cache'[p] \in {None, requests[t].data}
    BY <2>2, CacheUnchanged
  <2>9. /\ \A t \in Slots : RequestOK(requests[t])'
        /\ requests' \in [Slots -> Requests \cup {None}]
        /\ requests'[s] = r
        /\ \A t \in Slots \ {s} : requests'[t] = requests[t]
    BY <2>2, <2>4, <2>6, <2>7, <2>8, Others
  <2>10. \A t \in Slots \ {s} : o \notin WrittenBy(requests[t])
    BY <1>1, WritersAre DEF Locked
  <2>11. ASSUME NEW x \in Slots, NEW y \in Slots, x # y
         PROVE  WrittenBy(requests'[x]) \cap WrittenBy(requests'[y]) = {}
    <3>1. WrittenBy(requests[x]) \cap WrittenBy(requests[y]) = {}
      BY <2>11 DEF StorageInv, Exclusive
    <3>2. CASE x = s
      BY <2>5, <2>9, <2>10, <2>11, <3>1, <3>2
    <3>3. CASE y = s
      BY <2>5, <2>9, <2>10, <2>11, <3>1, <3>3
    <3>4. CASE x # s /\ y # s
      BY <2>9, <3>1, <3>4
    <3>. QED  BY <3>2, <3>3, <3>4
  <2>12. Exclusive'
    BY <2>11 DEF Exclusive, WrittenBy, Written, Before
  <2>13. \A p \in Objects : Fresh(p)'
    BY <2>2, <2>5, <2>9, FreshKept
  <2>14. \A p \in Objects : StoredOK(p)'
    BY <2>2, <2>6 DEF StorageInv, StoredOK
  <2>15. TypeOK'
    BY <1>4, <2>2, <2>6, <2>9, Typed DEF TypeOK
  <2>. QED  BY <2>9, <2>12, <2>13, <2>14, <2>15 DEF StorageInv
<1>. QED  BY <1>5, <1>6 DEF insert_into_af_collab

(* Redis gets the data of a row that is locked: no other transaction has     *)
(* cached that collab.                                                       *)
LEMMA CacheStep ==
  ASSUME StorageInv, NEW s \in Slots, CacheWritten(s)
  PROVE  StorageInv'
<1>. DEFINE q == requests[s]
            o == q.batch[q.pos]
<1>1. /\ Doing(s, {"write", "batch"}) /\ q.step = "cache"
      /\ insert_encode_collab_bytes(o, q.data)
      /\ UNCHANGED <<af_collab, asked, offered>>
  BY DEF CacheWritten
<1>2. /\ q # None /\ q.op \in {"write", "batch"} /\ q \in WriteRequest /\ RequestOK(q)
      /\ q.pos \in Nat /\ q.data \in Data /\ q.u \in Users
      /\ q.pos \in DOMAIN q.batch => o \in Objects
      /\ WrittenBy(q) = Written(q) /\ CachedBy(q) = Cached(q)
  BY <1>1, WriterFacts
<1>3. q.pos \in DOMAIN q.batch /\ q.data \in Data \ Undecodable /\ o \in Objects
  BY <1>1, <1>2 DEF RequestOK
<1>4. AccessTypeOK'
  <2>1. update_access_level_policy(q.u, o, "FullAccess") \/ UNCHANGED accessVars
    BY DEF CacheWritten
  <2>. QED  BY <1>2, <1>3, <2>1, Typed, AccessKept
<1>5. PICK r : r = [q EXCEPT !.step = "check", !.pos = @ + 1]
  OBVIOUS
<1>6. /\ r \in WriteRequest /\ r.op = q.op /\ r.pos = q.pos + 1 /\ r.batch = q.batch
      /\ r.data = q.data /\ r.step = "check"
  <2>1. q.pos + 1 \in Nat
    BY <1>2
  <2>2. /\ r.op = q.op /\ r.pos = q.pos + 1 /\ r.batch = q.batch /\ r.data = q.data
        /\ r.step = "check"
    BY <1>2, <1>5 DEF WriteRequest
  <2>3. r \in WriteRequest
    BY <1>2, <1>5, <2>1 DEF WriteRequest
  <2>. QED  BY <2>2, <2>3
<1>7. Becomes(s, r)
  BY <1>5 DEF CacheWritten
<1>8. /\ Written(r) = Written(q) /\ Cached(r) = Cached(q) \cup {o} /\ o \in Written(q)
      /\ Cached(r) \subseteq Written(r)
  <2>1. Before(q, q.pos + 1) = Before(q, q.pos) \cup {o}
    BY <1>2, <1>3, BeforeFacts
  <2>2. \A n : Before(r, n) = Before(q, n)
    BY <1>6 DEF Before
  <2>3. Written(q) = Before(q, q.pos + 1) /\ Cached(q) = Before(q, q.pos)
    BY <1>1 DEF Written, Cached
  <2>4. Written(r) = Before(r, q.pos + 1) /\ Cached(r) = Before(r, q.pos + 1)
    BY <1>6 DEF Written, Cached
  <2>. QED  BY <2>1, <2>2, <2>3, <2>4
<1>9. r \in Requests /\ r # None
  BY <1>6 DEF Requests
<1>10. WrittenBy(r) = WrittenBy(q) /\ CachedBy(r) = CachedBy(q) \cup {o}
  BY <1>2, <1>6, <1>8, <1>9 DEF WrittenBy, CachedBy
<1>11. /\ mem_cache' \in [Objects -> (Data \ Undecodable) \cup {None}]
       /\ \A p \in Objects : p # o => mem_cache'[p] = mem_cache[p]
       /\ mem_cache'[o] \in {mem_cache[o], q.data}
       /\ o \in excused' \/ mem_cache'[o] = q.data
       /\ excused' \subseteq Objects
       /\ \A p \in Objects : p # o => (p \in excused <=> p \in excused')
       /\ failures' \in 0 .. MaxFailures
  <2>1. CASE /\ mem_cache' = [mem_cache EXCEPT ![o] = q.data]
             /\ excused' = excused \ {o} /\ UNCHANGED failures
    BY <1>3, <2>1, Typed
  <2>2. CASE Fails /\ excused' = excused \cup {o} /\ UNCHANGED mem_cache
    <3>1. failures' \in 0 .. MaxFailures
      BY <2>2, FailsType
    <3>. QED  BY <1>3, <2>2, <3>1, Typed
  <2>. QED  BY <1>1, <2>1, <2>2 DEF insert_encode_collab_bytes
<1>12. \A t \in Slots \ {s} : o \notin CachedBy(requests[t])
  <2>1. o \in WrittenBy(requests[s])
    BY <1>2, <1>8
  <2>2. ASSUME NEW t \in Slots \ {s} PROVE o \notin WrittenBy(requests[t])
    <3>1. WrittenBy(requests[s]) \cap WrittenBy(requests[t]) = {}
      BY DEF StorageInv, Exclusive
    <3>. QED  BY <2>1, <3>1
  <2>. QED  BY <2>2, CachedWritten, Typed
<1>13. \A t \in Slots \ {s} : \A p \in CachedBy(requests[t]) :
         p \in excused' \/ mem_cache'[p] \in {None, requests[t].data}
  BY <1>3, <1>11, <1>12, CacheChanged
<1>14. RequestOK(r)'
  <2>1. Written(q) \subseteq Objects
    BY <1>2, CachedWritten DEF Requests
  <2>2. \A p \in Written(r) : r.data \in offered'[p]
    BY <1>1, <1>2, <1>6, <1>8, <2>1 DEF RequestOK
  <2>3. \A p \in Cached(r) : p \in excused' \/ mem_cache'[p] \in {None, r.data}
    <3>1. \A p \in Cached(q) : p \in Objects /\ (p \in excused \/ mem_cache[p] \in {None, q.data})
      BY <1>2, <1>8, <2>1 DEF RequestOK
    <3>. QED  BY <1>6, <1>8, <1>11, <3>1
  <2>4. r.pos \in 1 .. Len(r.batch) + 1
    BY <1>2, <1>3, <1>6, BatchType
  <2>5. r.op \notin {"get", "batch_get"}
    BY <1>2, <1>6
  <2>. QED  BY <1>3, <1>6, <2>2, <2>3, <2>4, <2>5 DEF RequestOK, Written, Cached, Before
<1>15. /\ \A t \in Slots : RequestOK(requests[t])'
       /\ requests' \in [Slots -> Requests \cup {None}]
       /\ requests'[s] = r
       /\ \A t \in Slots \ {s} : requests'[t] = requests[t]
  BY <1>1, <1>7, <1>9, <1>13, <1>14, Others
<1>16. Exclusive'
  BY <1>10, <1>15, ExclusiveKept
<1>17. ASSUME NEW p \in Objects PROVE Fresh(p)'
  <2>1. CASE p = o
    <3>1. o \in CachedBy(requests'[s])
      BY <1>10, <1>15
    <3>. QED  BY <2>1, <3>1 DEF Fresh, CachedBy, Cached, Before
  <2>2. CASE p # o
    <3>1. /\ mem_cache'[p] = mem_cache[p] /\ af_collab'[p] = af_collab[p]
          /\ p \in excused => p \in excused'
          /\ p \in CachedBy(requests[s]) => p \in excused' \/ p \in CachedBy(r)
      BY <1>1, <1>10, <1>11, <2>2
    <3>. QED  BY <1>15, <3>1, FreshKept
  <2>. QED  BY <2>1, <2>2
<1>18. \A p \in Objects : StoredOK(p)'
  <2>1. q.data \in offered[o]
    BY <1>2, <1>8 DEF RequestOK
  <2>. QED  BY <1>1, <1>3, <1>11, <2>1 DEF StorageInv, StoredOK
<1>19. TypeOK'
  BY <1>1, <1>4, <1>11, <1>15, Typed DEF TypeOK
<1>. QED  BY <1>15, <1>16, <1>17, <1>18, <1>19 DEF StorageInv

(* What is known when all of the batch is written.                           *)
LEMMA AllWritten ==
  ASSUME StorageInv, NEW s \in Slots, Commit(s)
  PROVE  LET q == requests[s] IN
         /\ Written(q) = InBatch(q) /\ Cached(q) = Written(q)
         /\ q.data \notin Undecodable
         /\ Written(q) \subseteq Objects
<1>. DEFINE q == requests[s]
<1>1. Doing(s, {"write", "batch"}) /\ q.pos > Len(q.batch)
  BY DEF Commit
<1>2. q # None /\ q.op \in {"write", "batch"} /\ q \in WriteRequest /\ RequestOK(q) /\ q.pos \in Nat
  BY <1>1, WriterFacts
<1>3. Len(q.batch) \in Nat /\ Len(q.batch) > 0 /\ DOMAIN q.batch = 1 .. Len(q.batch)
  BY <1>2, BatchType
<1>4. q.pos \notin DOMAIN q.batch /\ q.pos > 1
  BY <1>1, <1>2, <1>3
<1>5. q.step = "check" /\ q.data \notin Undecodable
  BY <1>2, <1>4 DEF RequestOK
<1>6. Written(q) = Before(q, q.pos) /\ Cached(q) = Before(q, q.pos)
  BY <1>5 DEF Written, Cached
<1>7. /\ Before(q, q.pos) = InBatch(q)
      /\ Before(q, q.pos) \subseteq Objects
  BY <1>1, <1>2, BeforeFacts
<1>. QED  BY <1>5, <1>6, <1>7

(* The commit makes the rows agree with what redis was given.                *)
LEMMA CommitStep ==
  ASSUME StorageInv, NEW s \in Slots, Commit(s)
  PROVE  StorageInv'
<1>. DEFINE q == requests[s]
<1>1. /\ Doing(s, {"write", "batch"}) /\ Becomes(s, None)
      /\ UNCHANGED <<accessVars, mem_cache, asked, failures, offered, excused>>
      /\ af_collab' = [o \in Objects |-> IF o \in Written(q) THEN CommitRow(q, o) ELSE af_collab[o]]
  BY DEF Commit, counters, history
<1>2. /\ q # None /\ q.op \in {"write", "batch"} /\ q \in WriteRequest /\ RequestOK(q)
      /\ q.data \in Data /\ q.w \in Workspaces
      /\ WrittenBy(q) = Written(q) /\ CachedBy(q) = Cached(q)
  BY <1>1, WriterFacts
<1>3. Cached(q) = Written(q) /\ q.data \notin Undecodable /\ Written(q) \subseteq Objects
  BY AllWritten
<1>4. \A o \in Objects : CommitRow(q, o) \in Row /\ CommitRow(q, o).blob = q.data
  <2>1. ASSUME NEW o \in Objects PROVE CommitRow(q, o) \in Row /\ CommitRow(q, o).blob = q.data
    <3>1. CASE is_collab_exists(o)
      <4>1. af_collab[o] \in Row
        BY <3>1, Typed DEF is_collab_exists
      <4>. QED  BY <1>2, <3>1, <4>1 DEF CommitRow, Row
    <3>2. CASE ~is_collab_exists(o)
      BY <1>2, <3>2 DEF CommitRow, Row
    <3>. QED  BY <3>1, <3>2
  <2>. QED  BY <2>1
<1>5. /\ af_collab' \in [Objects -> Row \cup {None}]
      /\ \A o \in Written(q) : af_collab'[o].blob = q.data
      /\ \A o \in Objects : o \notin Written(q) => af_collab'[o] = af_collab[o]
  BY <1>1, <1>3, <1>4, Typed
<1>6. \A t \in Slots \ {s} : \A p \in CachedBy(requests[t]) :
        p \in excused' \/ mem_cache'[p] \in {None, requests[t].data}
  BY <1>1, CacheUnchanged
<1>7. RequestOK(None)'
  BY DEF RequestOK
<1>8. /\ \A t \in Slots : RequestOK(requests[t])'
      /\ requests' \in [Slots -> Requests \cup {None}]
      /\ requests'[s] = None
      /\ \A t \in Slots \ {s} : requests'[t] = requests[t]
  BY <1>1, <1>6, <1>7, Others
<1>9. Exclusive'
  <2>1. WrittenBy(None) \subseteq WrittenBy(requests[s])
    BY NoWriter
  <2>. QED  BY <1>8, <2>1, ExclusiveKept
<1>10. ASSUME NEW o \in Objects PROVE Fresh(o)'
  <2>1. CASE o \in Written(q)
    <3>1. o \in excused \/ mem_cache[o] \in {None, q.data}
      BY <1>2, <1>3, <2>1 DEF RequestOK
    <3>. QED  BY <1>1, <1>5, <2>1, <3>1 DEF Fresh
  <2>2. CASE o \notin Written(q)
    <3>1. /\ mem_cache'[o] = mem_cache[o] /\ af_collab'[o] = af_collab[o]
          /\ o \in excused => o \in excused'
          /\ o \notin CachedBy(requests[s])
      BY <1>1, <1>2, <1>3, <1>5, <2>2
    <3>. QED  BY <1>8, <3>1, FreshKept
  <2>. QED  BY <2>1, <2>2
<1>11. \A o \in Objects : StoredOK(o)'
  <2>1. \A o \in Written(q) : q.data \in offered[o]
    BY <1>2 DEF RequestOK
  <2>. QED  BY <1>1, <1>3, <1>5, <2>1 DEF StorageInv, StoredOK
<1>12. TypeOK'
  <2>1. AccessTypeOK'
    BY <1>1, Typed DEF accessVars, AccessTypeOK
  <2>. QED  BY <1>1, <1>5, <1>8, <2>1, Typed DEF TypeOK
<1>. QED  BY <1>8, <1>9, <1>10, <1>11, <1>12 DEF StorageInv

-----------------------------------------------------------------------------
(* A read or a deletion that changes the entry of its collab, keeps its      *)
(* blob, and goes on with q.                                                 *)
LEMMA EntryStep ==
  ASSUME StorageInv, NEW s \in Slots, NEW o \in Objects,
         requests[s] # None, requests[s].op \notin {"write", "batch"},
         NEW q \in Requests \cup {None}, Becomes(s, q), RequestOK(q),
         q = None \/ q.op \notin {"write", "batch", "get", "batch_get"},
         UNCHANGED <<accessVars, af_collab, asked, offered>>,
         failures' \in 0 .. MaxFailures,
         mem_cache' \in [Objects -> (Data \ Undecodable) \cup {None}],
         mem_cache'[o] # None => mem_cache'[o] \in offered[o],
         excused' \subseteq Objects,
         \A p \in Objects : p # o => mem_cache'[p] = mem_cache[p] /\ (p \in excused => p \in excused'),
         \/ mem_cache'[o] = None \/ o \in excused'
         \/ mem_cache'[o] = af_collab[o].blob /\ Writers(o) = {}
         \/ mem_cache'[o] = mem_cache[o] /\ excused' = excused
  PROVE  StorageInv'
<1>1. CachedBy(requests[s]) = {} /\ WrittenBy(q) = {} /\ CachedBy(q) = {}
  BY NoWriter
<1>2. ASSUME Writers(o) = {} PROVE \A t \in Slots \ {s} : o \notin CachedBy(requests[t])
  BY <1>2, WritersAre, CachedWritten, Typed
<1>3. \A t \in Slots \ {s} : \A p \in CachedBy(requests[t]) :
        p \in excused' \/ mem_cache'[p] \in {None, requests[t].data}
  <2>1. CASE mem_cache'[o] = mem_cache[o] /\ excused' = excused
    <3>1. mem_cache' = mem_cache
      BY <2>1, Typed
    <3>. QED  BY <2>1, <3>1, CacheUnchanged
  <2>2. CASE ~(mem_cache'[o] = mem_cache[o] /\ excused' = excused)
    BY <1>2, <2>2, CacheChanged
  <2>. QED  BY <2>1, <2>2
<1>4. RequestOK(q)'
  BY DEF RequestOK
<1>5. /\ \A t \in Slots : RequestOK(requests[t])'
      /\ requests' \in [Slots -> Requests \cup {None}]
      /\ requests'[s] = q
      /\ \A t \in Slots \ {s} : requests'[t] = requests[t]
  BY <1>3, <1>4, Others
<1>6. Exclusive'
  BY <1>1, <1>5, ExclusiveKept
<1>7. ASSUME NEW p \in Objects PROVE Fresh(p)'
  <2>1. CASE mem_cache'[p] = mem_cache[p] /\ (p \in excused => p \in excused')
    BY <1>1, <1>5, <2>1, FreshKept
  <2>2. CASE p = o
    <3>1. CASE mem_cache'[o] = None \/ o \in excused'
      BY <2>2, <3>1 DEF Fresh
    <3>2. CASE mem_cache'[o] = af_collab[o].blob
      BY <2>2, <3>2 DEF Fresh
    <3>. QED  BY <2>1, <2>2, <3>1, <3>2
  <2>. QED  BY <2>1, <2>2
<1>8. \A p \in Objects : StoredOK(p)'
  BY DEF StorageInv, StoredOK
<1>9. TypeOK'
  <2>1. AccessTypeOK'
    BY Typed DEF accessVars, AccessTypeOK
  <2>. QED  BY <1>5, <2>1, Typed DEF TypeOK
<1>. QED  BY <1>5, <1>6, <1>7, <1>8, <1>9 DEF StorageInv

(* A read that fills the cache after its query: what it got was offered, and *)
(* is excused if the row has changed or is being written.                    *)
LEMMA FillStep ==
  ASSUME StorageInv, NEW s \in Slots, insert_encode_collab(s)
  PROVE  StorageInv'
<1>. DEFINE q == requests[s]
            old == ~Live(q.o) \/ af_collab[q.o].blob # q.got \/ Locked(q.o, s)
<1>1. /\ q # None /\ q.op = "get" /\ q.step = "fill"
      /\ UNCHANGED <<accessVars, af_collab, asked, offered>>
      /\ GiveAnswer(s, q.got)
  BY DEF insert_encode_collab, Doing
<1>2. q \in ReadRequest /\ RequestOK(q)
  BY <1>1, Typed, KindOf DEF StorageInv
<1>3. q.o \in Objects /\ q.got \in Data \ Undecodable /\ q.got \in offered[q.o]
  BY <1>1, <1>2 DEF ReadRequest, RequestOK
<1>4. PICK r \in Requests : Becomes(s, r) /\ RequestOK(r) /\ r.op = "answer"
  BY <1>1, <1>3, AnswerOK DEF GiveAnswer, Requests
<1>5. requests[s] # None /\ requests[s].op \notin {"write", "batch"}
  BY <1>1
<1>6. CASE /\ mem_cache' = [mem_cache EXCEPT ![q.o] = q.got]
           /\ excused' = IF old THEN excused \cup {q.o} ELSE excused \ {q.o}
           /\ UNCHANGED failures
  <2>1. /\ mem_cache' \in [Objects -> (Data \ Undecodable) \cup {None}]
        /\ mem_cache'[q.o] = q.got
        /\ \A p \in Objects : p # q.o => mem_cache'[p] = mem_cache[p] /\ (p \in excused => p \in excused')
        /\ excused' \subseteq Objects
    BY <1>3, <1>6, Typed
  <2>2. \/ q.o \in excused'
        \/ mem_cache'[q.o] = af_collab[q.o].blob /\ Writers(q.o) = {}
    <3>1. CASE old
      BY <1>6, <3>1
    <3>2. CASE ~old
      <4>1. s \notin Writers(q.o)
        BY <1>1 DEF Writers, Doing
      <4>2. Writers(q.o) = {}
        BY <3>2, <4>1 DEF Locked
      <4>. QED  BY <2>1, <3>2, <4>2
    <3>. QED  BY <3>1, <3>2
  <2>3. failures' \in 0 .. MaxFailures
    BY <1>6, FailsType
  <2>. QED  BY <1>1, <1>3, <1>4, <1>5, <2>1, <2>2, <2>3, EntryStep
<1>7. CASE Fails /\ UNCHANGED <<mem_cache, excused>>
  <2>1. failures' \in 0 .. MaxFailures
    BY <1>7, FailsType
  <2>2. mem_cache[q.o] # None => mem_cache[q.o] \in offered[q.o]
    BY <1>3 DEF StorageInv, StoredOK
  <2>. QED  BY <1>1, <1>3, <1>4, <1>5, <1>7, <2>1, <2>2, Typed, EntryStep
<1>. QED  BY <1>6, <1>7 DEF insert_encode_collab

(* A deletion takes the entry first.                                         *)
LEMMA RemoveStep ==
  ASSUME StorageInv, NEW s \in Slots, remove_encode_collab(s)
  PROVE  StorageInv'
<1>. DEFINE q == requests[s]
<1>1. /\ q # None /\ q.op = "delete" /\ UNCHANGED <<accessVars, af_collab, asked, offered>>
  BY DEF remove_encode_collab, Doing
<1>2. q \in DeleteRequest /\ q.o \in Objects
  BY <1>1, Typed, KindOf DEF DeleteRequest
<1>3. requests[s] # None /\ requests[s].op \notin {"write", "batch"}
  BY <1>1
<1>4. CASE /\ mem_cache' = [mem_cache EXCEPT ![q.o] = None]
           /\ excused' = excused \ {q.o}
           /\ Becomes(s, [q EXCEPT !.step = "disk"])
           /\ UNCHANGED failures
  <2>. DEFINE r == [q EXCEPT !.step = "disk"]
  <2>1. r \in DeleteRequest /\ r.op = "delete"
    BY <1>1, <1>2 DEF DeleteRequest
  <2>2. Becomes(s, r)
    BY <1>4
  <2>. HIDE DEF r
  <2>3. r \in Requests /\ RequestOK(r)
    BY <2>1 DEF Requests, RequestOK
  <2>4. /\ mem_cache' \in [Objects -> (Data \ Undecodable) \cup {None}]
        /\ mem_cache'[q.o] = None
        /\ \A p \in Objects : p # q.o => mem_cache'[p] = mem_cache[p] /\ (p \in excused => p \in excused')
        /\ excused' \subseteq Objects
    BY <1>2, <1>4, Typed
  <2>5. failures' \in 0 .. MaxFailures
    BY <1>4, FailsType
  <2>. QED  BY <1>1, <1>2, <1>3, <2>1, <2>2, <2>3, <2>4, <2>5, EntryStep
<1>5. CASE Fails /\ Becomes(s, None) /\ UNCHANGED <<mem_cache, excused>>
  <2>1. failures' \in 0 .. MaxFailures
    BY <1>5, FailsType
  <2>2. mem_cache[q.o] # None => mem_cache[q.o] \in offered[q.o]
    BY <1>2 DEF StorageInv, StoredOK
  <2>3. RequestOK(None)
    BY DEF RequestOK
  <2>. QED  BY <1>1, <1>2, <1>3, <1>5, <2>1, <2>2, <2>3, Typed, EntryStep
<1>. QED  BY <1>4, <1>5 DEF remove_encode_collab

(* A row that is deleted keeps its data.                                     *)
LEMMA DeleteStep ==
  ASSUME StorageInv, NEW s \in Slots, delete_collab(s)
  PROVE  StorageInv'
<1>. DEFINE o == requests[s].o
<1>1. /\ requests[s] # None /\ requests[s].op = "delete" /\ Becomes(s, None)
      /\ UNCHANGED <<accessVars, mem_cache, asked, failures, offered, excused>>
      /\ af_collab' = [af_collab EXCEPT ![o] = IF @ = None THEN None ELSE [@ EXCEPT !.deleted = TRUE]]
  BY DEF delete_collab, Doing, counters, history
<1>2. o \in Objects
  BY <1>1, Typed, KindOf DEF DeleteRequest
<1>3. af_collab[o] # None => /\ [af_collab[o] EXCEPT !.deleted = TRUE] \in Row
                            /\ [af_collab[o] EXCEPT !.deleted = TRUE].blob = af_collab[o].blob
                            /\ [af_collab[o] EXCEPT !.deleted = TRUE].deleted
  <2>1. af_collab[o] # None => af_collab[o] \in Row
    BY <1>2, Typed
  <2>. QED  BY <2>1 DEF Row
<1>4. /\ af_collab' \in [Objects -> Row \cup {None}]
      /\ \A p \in Objects : p # o => af_collab'[p] = af_collab[p]
      /\ af_collab'[o] = None <=> af_collab[o] = None
      /\ af_collab'[o] # None => af_collab'[o].blob = af_collab[o].blob /\ af_collab'[o].deleted
  <2>1. af_collab[o] # None => [af_collab[o] EXCEPT !.deleted = TRUE] # None
    BY <1>3, NotNone
  <2>. QED  BY <1>1, <1>2, <1>3, <2>1, Typed
<1>5. \A t \in Slots \ {s} : \A p \in CachedBy(requests[t]) :
        p \in excused' \/ mem_cache'[p] \in {None, requests[t].data}
  BY <1>1, CacheUnchanged
<1>6. RequestOK(None)'
  BY DEF RequestOK
<1>7. /\ \A t \in Slots : RequestOK(requests[t])'
      /\ requests' \in [Slots -> Requests \cup {None}]
      /\ requests'[s] = None
      /\ \A t \in Slots \ {s} : requests'[t] = requests[t]
  BY <1>1, <1>5, <1>6, Others
<1>8. Exclusive'
  <2>1. WrittenBy(None) \subseteq WrittenBy(requests[s])
    BY NoWriter
  <2>. QED  BY <1>7, <2>1, ExclusiveKept
<1>9. ASSUME NEW p \in Objects PROVE Fresh(p)'
  <2>1. CASE p = o
    BY <1>4, <2>1 DEF Fresh, Live, is_collab_exists
  <2>2. CASE p # o
    <3>1. /\ mem_cache'[p] = mem_cache[p] /\ af_collab'[p] = af_collab[p]
          /\ p \in excused => p \in excused'
          /\ p \notin CachedBy(requests[s])
      BY <1>1, <1>4, <2>2, NoWriter
    <3>. QED  BY <1>7, <3>1, FreshKept
  <2>. QED  BY <2>1, <2>2
<1>10. \A p \in Objects : StoredOK(p)'
  BY <1>1, <1>4 DEF StorageInv, StoredOK
<1>11. TypeOK'
  <2>1. AccessTypeOK'
    BY <1>1, Typed DEF accessVars, AccessTypeOK
  <2>. QED  BY <1>1, <1>4, <1>7, <2>1, Typed DEF TypeOK
<1>. QED  BY <1>7, <1>8, <1>9, <1>10, <1>11 DEF StorageInv

(* A request ends without success.                                           *)
LEMMA AbortStep ==
  ASSUME StorageInv, NEW s \in Slots, Abort(s)
  PROVE  StorageInv'
<1>1. AccessTypeOK' /\ UNCHANGED accessVars
  BY Typed DEF Abort, accessVars, AccessTypeOK
<1>2. CASE Doing(s, {"write", "batch"})
  BY <1>1, <1>2, RollbackStep DEF Abort
<1>3. CASE ~Doing(s, {"write", "batch"})
  BY <1>1, <1>3, EndStep DEF Abort, Doing
<1>. QED  BY <1>2, <1>3

(* An entry that expires excuses nothing.                                    *)
LEMMA ExpireStep ==
  ASSUME StorageInv, NEW o \in Objects, Expire(o)
  PROVE  StorageInv'
<1>1. /\ UNCHANGED <<accessVars, af_collab, requests, asked, failures, offered>>
      /\ mem_cache' = [mem_cache EXCEPT ![o] = None]
      /\ excused' = excused \ {o}
  BY DEF Expire, counters
<1>2. /\ mem_cache' \in [Objects -> (Data \ Undecodable) \cup {None}]
      /\ mem_cache'[o] = None /\ excused' \subseteq Objects
      /\ \A p \in Objects : p # o => mem_cache'[p] = mem_cache[p] /\ (p \in excused => p \in excused')
  BY <1>1, Typed
<1>3. ASSUME NEW t \in Slots PROVE RequestOK(requests[t])'
  <2>1. PICK q : q = requests[t]
    OBVIOUS
  <2>2. q \in Requests \cup {None} /\ RequestOK(q)
    BY <2>1, Typed DEF StorageInv
  <2>3. \A p \in CachedBy(q) : p \in Objects /\ (p \in excused \/ mem_cache[p] \in {None, q.data})
    BY <2>2, CachedWritten DEF RequestOK, CachedBy
  <2>4. \A p \in CachedBy(q) : p \in excused' \/ mem_cache'[p] \in {None, q.data}
    BY <1>2, <2>3
  <2>5. RequestOK(q)'
    BY <1>1, <2>2, <2>4, RequestKept
  <2>. QED  BY <1>1, <2>1, <2>5 DEF RequestOK
<1>4. Exclusive'
  <2>1. \A s, t \in Slots : s # t => WrittenBy(requests'[s]) \cap WrittenBy(requests'[t]) = {}
    BY <1>1 DEF StorageInv, Exclusive
  <2>. QED  BY <2>1 DEF Exclusive, WrittenBy, Written, Before
<1>5. \A p \in Objects : StoredOK(p)'
  BY <1>1, <1>2 DEF StorageInv, StoredOK
<1>6. ASSUME NEW p \in Objects PROVE Fresh(p)'
  <2>1. CASE p = o
    BY <1>2, <2>1 DEF Fresh
  <2>2. CASE p # o
    BY <1>1, <1>2, <2>2 DEF StorageInv, Fresh, Live, is_collab_exists, CachedBy, Cached, Before
  <2>. QED  BY <2>1, <2>2
<1>7. TypeOK'
  <2>1. AccessTypeOK'
    BY <1>1, Typed DEF accessVars, AccessTypeOK
  <2>. QED  BY <1>1, <1>2, <2>1, Typed DEF TypeOK
<1>. QED  BY <1>3, <1>4, <1>5, <1>6, <1>7 DEF StorageInv

(* The first state.                                                          *)
LEMMA InitHolds == Init => StorageInv
<1>. SUFFICES ASSUME Init PROVE StorageInv
  OBVIOUS
<1>1. AccessTypeOK
  <2>1. <<>> \in Seq(Watched)
    OBVIOUS
  <2>. QED  BY <2>1 DEF Init, AccessInit, AccessTypeOK
<1>2. af_collab \in [Objects -> Row \cup {None}]
  <2>1. ASSUME NEW o \in Objects, Stored[o] # None
        PROVE  [blob |-> Stored[o], workspace |-> WorkspaceOf[o], deleted |-> FALSE] \in Row
    BY <2>1 DEF Row
  <2>. QED  BY <2>1 DEF Init
<1>3. TypeOK
  BY <1>1, <1>2 DEF Init, TypeOK
<1>4. \A s \in Slots : RequestOK(requests[s])
  BY DEF Init, RequestOK
<1>5. \A o \in Objects : StoredOK(o)
  BY <1>2 DEF Init, StoredOK
<1>6. \A o \in Objects : Fresh(o)
  BY DEF Init, Fresh
<1>7. Exclusive
  BY NoWriter DEF Init, Exclusive
<1>. QED  BY <1>3, <1>4, <1>5, <1>6, <1>7 DEF StorageInv

(* Every step preserves the inductive invariant.                             *)
LEMMA NextPreserves == StorageInv /\ [Next]_vars => StorageInv'
<1>. SUFFICES ASSUME StorageInv, [Next]_vars PROVE StorageInv'
  OBVIOUS
<1>1. CASE UNCHANGED vars
  <2>1. UNCHANGED <<accessVars, af_collab, mem_cache, requests, asked, failures, offered, excused>>
    BY <1>1 DEF vars, stored, counters, history
  <2>2. TypeOK'
    BY <2>1, Typed DEF TypeOK, accessVars, AccessTypeOK
  <2>3. \A s \in Slots : RequestOK(requests[s])'
    BY <2>1 DEF StorageInv, RequestOK
  <2>4. \A o \in Objects : StoredOK(o)' /\ Fresh(o)'
    BY <2>1 DEF StorageInv, StoredOK, Fresh, Live, is_collab_exists, CachedBy, Cached, Before
  <2>5. Exclusive'
    <3>1. \A s, t \in Slots : s # t => WrittenBy(requests'[s]) \cap WrittenBy(requests'[t]) = {}
      BY <2>1 DEF StorageInv, Exclusive
    <3>. QED  BY <3>1 DEF Exclusive, WrittenBy, Written, Before
  <2>. QED  BY <2>2, <2>3, <2>4, <2>5 DEF StorageInv
<1>2. ASSUME NEW s \in Slots, Step(s) PROVE StorageInv'
  <2>1. CASE Check(s) \/ insert_into_af_collab(s) \/ CacheWritten(s) \/ Commit(s)
    BY <2>1, CheckStep, UpsertStep, CacheStep, CommitStep
  <2>2. CASE \/ GetFromMem(s) \/ GetFromDisk(s) \/ batch_get_encode_collab(s)
             \/ batch_select_collab_blob(s)
    BY <2>2, GetStep
  <2>3. CASE insert_encode_collab(s) \/ remove_encode_collab(s) \/ delete_collab(s) \/ Abort(s)
    BY <2>3, FillStep, RemoveStep, DeleteStep, AbortStep
  <2>4. CASE Reply(s)
    BY <2>4, EndStep DEF Reply, Doing
  <2>. QED  BY <1>2, <2>1, <2>2, <2>3, <2>4 DEF Step
<1>3. ASSUME NEW s \in Slots, Handle(s) PROVE StorageInv'
  BY <1>3, HandleStep
<1>4. ASSUME NEW o \in Objects, Expire(o) PROVE StorageInv'
  BY <1>4, ExpireStep
<1>. QED  BY <1>1, <1>2, <1>3, <1>4 DEF Next

(* The inductive invariant holds in every reachable state.                   *)
LEMMA AlwaysStorageInv == Spec => []StorageInv
  BY InitHolds, NextPreserves, PTL DEF Spec

-----------------------------------------------------------------------------
(* The variables keep their types: in particular nothing gets into redis     *)
(* that check_encoded_collab_data has refused.                               *)
THEOREM StorageTypes == Spec => []TypeOK
<1>1. StorageInv => TypeOK
  BY DEF StorageInv
<1>. QED  BY AlwaysStorageInv, <1>1, PTL

(* Redis agrees with the row of a collab that no transaction is writing,     *)
(* except for the excused ways in which it may lag: a failure of redis, a    *)
(* rollback, and a read that was overtaken by a write.                       *)
THEOREM CacheStaysFresh == Spec => []CacheFresh
<1>1. StorageInv => CacheFresh
  <2>. SUFFICES ASSUME StorageInv, NEW o \in Objects,
                       Live(o) /\ mem_cache[o] # None /\ o \notin excused /\ Writers(o) = {}
                PROVE  mem_cache[o] = af_collab[o].blob
    BY DEF CacheFresh
  <2>1. ASSUME NEW s \in Slots PROVE o \notin CachedBy(requests[s])
    <3>1. o \notin WrittenBy(requests[s])
      BY WritersAre
    <3>2. CachedBy(requests[s]) \subseteq WrittenBy(requests[s])
      BY CachedWritten, Typed
    <3>. QED  BY <3>1, <3>2
  <2>. QED  BY <2>1 DEF StorageInv, Fresh
<1>. QED  BY AlwaysStorageInv, <1>1, PTL

-----------------------------------------------------------------------------
(* The actions of CollabStore, said of the mapped state.                     *)
LEMMA StoreActions ==
  ASSUME NEW s \in Slots
  PROVE  /\ UNCHANGED <<Value, Deleted, offered, Pending, Answers>> => UNCHANGED Store!storeVars
         /\ (/\ Pending[s] = None
             /\ \E w \in Store!Write : Pending' = [Pending EXCEPT ![s] = w]
             /\ UNCHANGED <<Value, Deleted, offered, Answers>>)
              => Store!StartWrite(s)
         /\ (/\ Pending[s] # None
             /\ \E o \in Pending[s].objects : offered' = [offered EXCEPT ![o] = @ \cup {Pending[s].data}]
             /\ UNCHANGED <<Value, Deleted, Pending, Answers>>)
              => Store!Offer(s)
         /\ (/\ Pending[s] # None
             /\ Pending' = [Pending EXCEPT ![s] = None]
             /\ UNCHANGED <<Value, Deleted, offered, Answers>>)
              => Store!GiveUp(s)
         /\ (/\ Answers' = [Answers EXCEPT ![s] = None]
             /\ UNCHANGED <<Value, Deleted, offered, Pending>>)
              => Store!Close(s)
         /\ (/\ Answers[s] = None
             /\ \E a \in Store!Answer : Store!MayAnswer(a) /\ Answers' = [Answers EXCEPT ![s] = a]
             /\ UNCHANGED <<Value, Deleted, offered, Pending>>)
              => Store!Respond(s)
<1>1. UNCHANGED <<Value, Deleted, offered, Pending, Answers>> => UNCHANGED Store!storeVars
  BY DEF Store!storeVars
<1>2. (/\ Pending[s] = None
       /\ \E w \in Store!Write : Pending' = [Pending EXCEPT ![s] = w]
       /\ UNCHANGED <<Value, Deleted, offered, Answers>>)
        => Store!StartWrite(s)
  BY DEF Store!StartWrite
<1>3. (/\ Pending[s] # None
       /\ \E o \in Pending[s].objects : offered' = [offered EXCEPT ![o] = @ \cup {Pending[s].data}]
       /\ UNCHANGED <<Value, Deleted, Pending, Answers>>)
        => Store!Offer(s)
  BY DEF Store!Offer
<1>4. (/\ Pending[s] # None
       /\ Pending' = [Pending EXCEPT ![s] = None]
       /\ UNCHANGED <<Value, Deleted, offered, Answers>>)
        => Store!GiveUp(s)
  BY DEF Store!GiveUp
<1>5. (/\ Answers' = [Answers EXCEPT ![s] = None]
       /\ UNCHANGED <<Value, Deleted, offered, Pending>>)
        => Store!Close(s)
  BY DEF Store!Close
<1>6. (/\ Answers[s] = None
       /\ \E a \in Store!Answer : Store!MayAnswer(a) /\ Answers' = [Answers EXCEPT ![s] = a]
       /\ UNCHANGED <<Value, Deleted, offered, Pending>>)
        => Store!Respond(s)
  BY DEF Store!Respond
<1>. QED  BY <1>1, <1>2, <1>3, <1>4, <1>5, <1>6

(* What a step of one slot does to the mapped state.                         *)
LEMMA MappedStep ==
  ASSUME StorageInv, NEW s \in Slots, NEW q, Becomes(s, q)
  PROVE  /\ Pending' = [Pending EXCEPT ![s] = PendingOf(q)]
         /\ Answers' = [Answers EXCEPT ![s] = AnswerOf(q)]
         /\ PendingOf(q) = PendingOf(requests[s]) => Pending' = Pending
         /\ AnswerOf(q) = AnswerOf(requests[s]) => Answers' = Answers
         /\ UNCHANGED af_collab => UNCHANGED <<Value, Deleted>>
<1>1. requests' = [requests EXCEPT ![s] = q] /\ requests \in [Slots -> Requests \cup {None}]
  BY Typed DEF Becomes
<1>2. \A t \in Slots : requests'[t] = IF t = s THEN q ELSE requests[t]
  BY <1>1
<1>3. /\ Pending = [t \in Slots |-> PendingOf(requests[t])]
      /\ Pending' = [t \in Slots |-> PendingOf(requests'[t])]
      /\ Answers = [t \in Slots |-> AnswerOf(requests[t])]
      /\ Answers' = [t \in Slots |-> AnswerOf(requests'[t])]
  BY DEF Pending, Answers, PendingOf, AnswerOf
<1>4. Pending' = [Pending EXCEPT ![s] = PendingOf(q)]
  BY <1>2, <1>3
<1>5. Answers' = [Answers EXCEPT ![s] = AnswerOf(q)]
  BY <1>2, <1>3
<1>6. PendingOf(q) = PendingOf(requests[s]) => Pending' = Pending
  BY <1>2, <1>3
<1>7. AnswerOf(q) = AnswerOf(requests[s]) => Answers' = Answers
  BY <1>2, <1>3
<1>8. UNCHANGED af_collab => Value' = Value
  BY DEF Value
<1>9. UNCHANGED af_collab => Deleted' = Deleted
  BY DEF Deleted
<1>. QED  BY <1>4, <1>5, <1>6, <1>7, <1>8, <1>9

(* A request that does not write has nothing pending, one that is not an     *)
(* answer gives none.                                                        *)
LEMMA Idle ==
  ASSUME NEW q
  PROVE  /\ q = None \/ q.op \notin {"write", "batch"} => PendingOf(q) = None
         /\ q = None \/ q.op # "answer" => AnswerOf(q) = None
  BY DEF PendingOf, AnswerOf

(* What is pending is a write of collabs.                                    *)
LEMMA PendingIsWrite ==
  ASSUME NEW q \in WriteRequest, q.op \in {"write", "batch"}
  PROVE  /\ PendingOf(q) \in Store!Write /\ PendingOf(q) # None
         /\ PendingOf(q) = [objects |-> InBatch(q), data |-> q.data]
         /\ AnswerOf(q) = None
<1>1. q # None
  BY NotNone
<1>2. q.data \in Data
  BY DEF WriteRequest
<1>3. InBatch(q) \subseteq Objects
  BY BatchType DEF InBatch
<1>4. PendingOf(q) = [objects |-> InBatch(q), data |-> q.data]
  BY <1>1 DEF PendingOf
<1>5. PendingOf(q) \in [objects : SUBSET Objects, data : Data]
  BY <1>2, <1>3, <1>4
<1>6. AnswerOf(q) = None
  BY DEF AnswerOf
<1>. QED  BY <1>4, <1>5, <1>6 DEF Store!Write

(* A step of the storage is a step of the store, or none.                    *)
Implemented == [Store!StoreNext]_(Store!storeVars)

(* The steps of the store at one slot.                                       *)
LEMMA SlotStep ==
  ASSUME NEW s \in Slots,
         \/ Store!StartWrite(s) \/ Store!Offer(s) \/ Store!CommitAll(s) \/ Store!GiveUp(s)
         \/ Store!Respond(s) \/ Store!Close(s) \/ UNCHANGED Store!storeVars
  PROVE  Implemented
  BY DEF Implemented, Store!StoreNext

(* A step that neither the rows, nor what is offered, nor the kind of the    *)
(* request tells of.                                                         *)
LEMMA StutterStep ==
  ASSUME StorageInv, NEW s \in Slots, NEW q, Becomes(s, q), UNCHANGED <<af_collab, offered>>,
         PendingOf(q) = PendingOf(requests[s]), AnswerOf(q) = AnswerOf(requests[s])
  PROVE  Implemented
<1>1. UNCHANGED <<Value, Deleted, Pending, Answers>>
  BY MappedStep
<1>. QED  BY <1>1, StoreActions, SlotStep

(* What is pending for a request that writes.                                *)
LEMMA PendingAt ==
  ASSUME StorageInv, NEW s \in Slots, NEW q, q = requests[s], Doing(s, {"write", "batch"})
  PROVE  /\ Pending[s] # None /\ AnswerOf(q) = None
         /\ Pending[s].objects = InBatch(q)
         /\ Pending[s].data = q.data
         /\ \A i \in DOMAIN q.batch : q.batch[i] \in Pending[s].objects
<1>1. q \in WriteRequest /\ q.op \in {"write", "batch"}
  BY WriterFacts
<1>2. Pending[s] = PendingOf(q)
  BY DEF Pending
<1>3. /\ Pending[s] # None /\ AnswerOf(q) = None
      /\ Pending[s] = [objects |-> InBatch(q), data |-> q.data]
  BY <1>1, <1>2, PendingIsWrite
<1>4. \A i \in DOMAIN q.batch : q.batch[i] \in Pending[s].objects
  BY <1>3 DEF InBatch
<1>. QED  BY <1>3, <1>4

(* A write that goes on in its batch is the same write to the store.         *)
LEMMA SamePending ==
  ASSUME NEW q \in WriteRequest, NEW r \in WriteRequest, q.op \in {"write", "batch"},
         r.op = q.op, r.batch = q.batch, r.data = q.data
  PROVE  PendingOf(r) = PendingOf(q) /\ AnswerOf(r) = AnswerOf(q)
<1>1. InBatch(r) = InBatch(q)
  BY DEF InBatch
<1>2. r # None /\ q # None
  BY NotNone
<1>. QED  BY <1>1, <1>2 DEF PendingOf, AnswerOf

(* A write that ends without a commit gives up.                              *)
LEMMA GiveUpStep ==
  ASSUME StorageInv, NEW s \in Slots, Doing(s, {"write", "batch"}), Rollback(s)
  PROVE  Implemented
<1>1. Becomes(s, None) /\ UNCHANGED <<af_collab, offered>>
  BY DEF Rollback, stored
<1>2. Pending[s] # None /\ AnswerOf(requests[s]) = None
  BY PendingAt
<1>3. PendingOf(None) = None /\ AnswerOf(None) = None
  BY Idle
<1>4. /\ Pending' = [Pending EXCEPT ![s] = None]
      /\ UNCHANGED <<Value, Deleted, Answers>>
  BY <1>1, <1>2, <1>3, MappedStep
<1>5. Store!GiveUp(s)
  BY <1>1, <1>2, <1>4, StoreActions
<1>. QED  BY <1>5, SlotStep

(* A request starts: a write is pending, any other is not to be seen.        *)
LEMMA StartImplements ==
  ASSUME StorageInv, NEW s \in Slots, requests[s] = None, NEW q \in Requests, q.op # "answer",
         Start(s, q)
  PROVE  Implemented
<1>1. Becomes(s, q) /\ UNCHANGED <<af_collab, offered>>
  BY DEF Start, Becomes, stored, history
<1>2. PendingOf(requests[s]) = None /\ AnswerOf(requests[s]) = None /\ AnswerOf(q) = None
  BY Idle
<1>3. CASE q.op \in {"write", "batch"}
  <2>1. PendingOf(q) \in Store!Write
    BY <1>3, KindOf, PendingIsWrite
  <2>2. /\ Pending' = [Pending EXCEPT ![s] = PendingOf(q)]
        /\ UNCHANGED <<Value, Deleted, Answers>>
    BY <1>1, <1>2, MappedStep
  <2>3. Pending[s] = None
    BY <1>2 DEF Pending
  <2>4. Store!StartWrite(s)
    BY <1>1, <2>1, <2>2, <2>3, StoreActions
  <2>. QED  BY <2>4, SlotStep
<1>4. CASE q.op \notin {"write", "batch"}
  BY <1>1, <1>2, <1>4, Idle, StutterStep
<1>. QED  BY <1>3, <1>4

(* An answer is one that the store may give.                                 *)
LEMMA RespondStep ==
  ASSUME StorageInv, NEW s \in Slots, NEW result, GiveAnswer(s, result),
         requests[s] # None, requests[s].op \in {"get", "batch_get"},
         UNCHANGED <<af_collab, offered>>,
         \/ result = Failed
         \/ result = NotFound /\ ~Live(requests[s].o)
         \/ result \in offered[requests[s].o]
  PROVE  Implemented
<1>1. requests[s].o \in Objects
  BY Typed, KindOf DEF ReadRequest
<1>2. PICK q : q = [op |-> "answer", o |-> requests[s].o, result |-> result]
  OBVIOUS
<1>3. Becomes(s, q) /\ q.op = "answer" /\ q.o = requests[s].o /\ q.result = result
  BY <1>2 DEF GiveAnswer
<1>4. result \in Data \cup {NotFound, Failed}
  BY <1>1, Typed
<1>5. q # None
  BY <1>1, <1>2, <1>4, NotNone DEF Answered
<1>6. AnswerOf(q) = [object |-> requests[s].o, result |-> result]
  BY <1>3, <1>5 DEF AnswerOf
<1>7. AnswerOf(q) \in Store!Answer
  BY <1>1, <1>4, <1>6 DEF Store!Answer
<1>8. Store!MayAnswer(AnswerOf(q))
  <2>1. ~Live(requests[s].o) => Value[requests[s].o] = None \/ requests[s].o \in Deleted
    BY <1>1 DEF Live, is_collab_exists, Value, Deleted
  <2>. QED  BY <1>6, <2>1 DEF Store!MayAnswer
<1>9. /\ PendingOf(requests[s]) = None /\ AnswerOf(requests[s]) = None
      /\ PendingOf(q) = None
  BY <1>3, Idle
<1>10. /\ Answers' = [Answers EXCEPT ![s] = AnswerOf(q)]
       /\ UNCHANGED <<Value, Deleted, Pending>>
  BY <1>3, <1>9, MappedStep
<1>11. Answers[s] = None
  BY <1>9 DEF Answers
<1>12. Store!Respond(s)
  BY <1>7, <1>8, <1>10, <1>11, StoreActions
<1>. QED  BY <1>12, SlotStep

(* The handlers start a request.                                             *)
LEMMA HandleImplements ==
  ASSUME StorageInv, NEW s \in Slots, Handle(s)
  PROVE  Implemented
<1>1. requests[s] = None
  BY DEF Handle, Free
<1>2. ASSUME NEW op \in {"write", "batch"}, NEW u \in Users, NEW w \in Workspaces,
             NEW b \in Batches \cup {<<o>> : o \in Objects}, NEW data \in Data,
             insert_or_update_collab(s, op, u, w, b, data)
      PROVE  Implemented
  <2>. DEFINE q == [op |-> op, u |-> u, w |-> w, batch |-> b, data |-> data, pos |-> 1,
                    step |-> "check"]
  <2>1. q \in WriteRequest /\ q.op # "answer" /\ Start(s, q)
    BY <1>2 DEF WriteRequest, insert_or_update_collab
  <2>. HIDE DEF q
  <2>. QED  BY <1>1, <2>1, StartImplements DEF Requests
<1>3. ASSUME NEW op \in {"get", "batch_get"}, NEW o \in Objects, Start(s, ReadOf(op, o))
      PROVE  Implemented
  <2>. DEFINE q == ReadOf(op, o)
  <2>1. 0 \in 0 .. MAX_ATTEMPTS - 1
    OBVIOUS
  <2>2. q \in ReadRequest /\ q.op # "answer" /\ Start(s, q)
    BY <1>3, <2>1 DEF ReadRequest, ReadOf
  <2>. HIDE DEF q
  <2>. QED  BY <1>1, <2>2, StartImplements DEF Requests
<1>4. ASSUME NEW o \in Objects, Start(s, [op |-> "delete", o |-> o, step |-> "mem"])
      PROVE  Implemented
  <2>. DEFINE q == [op |-> "delete", o |-> o, step |-> "mem"]
  <2>1. q \in DeleteRequest /\ q.op # "answer" /\ Start(s, q)
    BY <1>4 DEF DeleteRequest
  <2>. HIDE DEF q
  <2>. QED  BY <1>1, <2>1, StartImplements DEF Requests
<1>5. CASE create_collab_handler(s) \/ update_collab_handler(s)
  BY <1>2, <1>5 DEF create_collab_handler, update_collab_handler
<1>6. CASE create_collab_list_handler(s) \/ batch_create_collab_handler(s)
  BY <1>2, <1>6 DEF create_collab_list_handler, batch_create_collab_handler
<1>7. CASE get_collab_handler(s) \/ create_collab_snapshot_handler(s)
  BY <1>3, <1>7 DEF get_collab_handler, create_collab_snapshot_handler, get_collab_encoded
<1>8. CASE batch_get_collab_handler(s)
  BY <1>3, <1>8 DEF batch_get_collab_handler, batch_get_collab
<1>9. CASE delete_collab_handler(s)
  BY <1>4, <1>9 DEF delete_collab_handler, remove_collab
<1>. QED  BY <1>5, <1>6, <1>7, <1>8, <1>9 DEF Handle

(* A read answers what was offered, from redis or from the row, or goes on   *)
(* unseen.                                                                   *)
LEMMA GetImplements ==
  ASSUME StorageInv, NEW s \in Slots,
         \/ GetFromMem(s) \/ GetFromDisk(s) \/ batch_get_encode_collab(s)
         \/ batch_select_collab_blob(s)
  PROVE  Implemented
<1>. DEFINE q == requests[s]
<1>1. /\ q # None /\ q.op \in {"get", "batch_get"} /\ UNCHANGED <<af_collab, offered>>
  BY DEF GetFromMem, GetFromDisk, batch_get_encode_collab, batch_select_collab_blob, Doing,
         stored, history
<1>2. q \in ReadRequest /\ q.o \in Objects
  BY <1>1, Typed, KindOf DEF ReadRequest
<1>3. /\ mem_cache[q.o] # None => mem_cache[q.o] \in offered[q.o]
      /\ Live(q.o) => af_collab[q.o].blob \in offered[q.o]
  BY <1>2 DEF StorageInv, StoredOK, Live, is_collab_exists
<1>4. ASSUME NEW r, Becomes(s, r), r.op = q.op PROVE Implemented
  <2>1. /\ PendingOf(q) = None /\ AnswerOf(q) = None /\ PendingOf(r) = None /\ AnswerOf(r) = None
    BY <1>1, <1>4, Idle
  <2>. QED  BY <1>1, <1>4, <2>1, StutterStep
<1>5. CASE get_encode_collab(s)
  <2>1. CASE mem_cache[q.o] # None /\ GiveAnswer(s, mem_cache[q.o])
    BY <1>1, <1>3, <2>1, RespondStep
  <2>2. CASE Becomes(s, [q EXCEPT !.step = "disk"])
    <3>1. [q EXCEPT !.step = "disk"].op = q.op
      BY <1>2 DEF ReadRequest
    <3>. QED  BY <1>4, <2>2, <3>1
  <2>. QED  BY <1>5, <2>1, <2>2 DEF get_encode_collab
<1>6. CASE GetFromDisk(s)
  <2>1. CASE Becomes(s, [q EXCEPT !.step = "fill", !.got = af_collab[q.o].blob])
    <3>1. [q EXCEPT !.step = "fill", !.got = af_collab[q.o].blob].op = q.op
      BY <1>2 DEF ReadRequest
    <3>. QED  BY <1>4, <2>1, <3>1
  <2>2. CASE ~Live(q.o) /\ GiveAnswer(s, NotFound)
    BY <1>1, <2>2, RespondStep
  <2>3. CASE Becomes(s, [q EXCEPT !.attempts = @ + 1])
    <3>1. [q EXCEPT !.attempts = @ + 1].op = q.op
      BY <1>2 DEF ReadRequest
    <3>. QED  BY <1>4, <2>3, <3>1
  <2>4. CASE GiveAnswer(s, Failed)
    BY <1>1, <2>4, RespondStep
  <2>. QED  BY <1>6, <2>1, <2>2, <2>3, <2>4 DEF GetFromDisk
<1>7. CASE batch_select_collab_blob(s)
  <2>1. CASE GiveAnswer(s, IF Live(q.o) THEN af_collab[q.o].blob ELSE NotFound)
    BY <1>1, <1>3, <2>1, RespondStep
  <2>2. CASE GiveAnswer(s, Failed)
    BY <1>1, <2>2, RespondStep
  <2>. QED  BY <1>7, <2>1, <2>2 DEF batch_select_collab_blob
<1>. QED  BY <1>5, <1>6, <1>7 DEF GetFromMem, batch_get_encode_collab

(* A read that filled the cache answers what it got.                         *)
LEMMA FillImplements ==
  ASSUME StorageInv, NEW s \in Slots, insert_encode_collab(s)
  PROVE  Implemented
<1>. DEFINE q == requests[s]
<1>1. /\ q # None /\ q.op = "get" /\ q.step = "fill" /\ UNCHANGED <<af_collab, offered>>
      /\ GiveAnswer(s, q.got)
  BY DEF insert_encode_collab, Doing
<1>2. q.got \in offered[q.o]
  BY <1>1 DEF StorageInv, RequestOK
<1>. QED  BY <1>1, <1>2, RespondStep

(* The check of a collab shows only when it ends the write.                  *)
LEMMA CheckImplements ==
  ASSUME StorageInv, NEW s \in Slots, Check(s)
  PROVE  Implemented
<1>1. PICK q : q = requests[s]
  OBVIOUS
<1>2. Doing(s, {"write", "batch"})
  BY DEF Check
<1>3. q # None /\ q.op \in {"write", "batch"} /\ q \in WriteRequest
  BY <1>1, <1>2, WriterFacts
<1>4. CASE Rollback(s)
  BY <1>2, <1>4, GiveUpStep
<1>5. CASE Becomes(s, [q EXCEPT !.step = "upsert"]) /\ UNCHANGED <<stored, counters, history>>
  <2>1. PICK r : r = [q EXCEPT !.step = "upsert"]
    OBVIOUS
  <2>2. r \in WriteRequest /\ r.op = q.op /\ r.batch = q.batch /\ r.data = q.data
    BY <1>3, <2>1 DEF WriteRequest
  <2>3. PendingOf(r) = PendingOf(q) /\ AnswerOf(r) = AnswerOf(q)
    BY <1>3, <2>2, SamePending
  <2>. QED  BY <1>1, <1>5, <2>1, <2>3, StutterStep DEF stored, history
<1>. QED  BY <1>1, <1>4, <1>5 DEF Check

(* What a transaction writes it has offered.                                 *)
LEMMA UpsertImplements ==
  ASSUME StorageInv, NEW s \in Slots, insert_into_af_collab(s)
  PROVE  Implemented
<1>1. PICK q : q = requests[s]
  OBVIOUS
<1>2. Doing(s, {"write", "batch"}) /\ q.step = "upsert"
  BY <1>1 DEF insert_into_af_collab
<1>3. q # None /\ q.op \in {"write", "batch"} /\ q \in WriteRequest /\ RequestOK(q)
  BY <1>1, <1>2, WriterFacts
<1>4. q.pos \in DOMAIN q.batch
  BY <1>2, <1>3 DEF RequestOK
<1>5. CASE Rollback(s)
  BY <1>2, <1>5, GiveUpStep
<1>6. CASE /\ Becomes(s, [q EXCEPT !.step = "cache"])
           /\ offered' = [offered EXCEPT ![q.batch[q.pos]] = @ \cup {q.data}]
           /\ UNCHANGED <<stored, counters, excused>>
  <2>1. PICK r : r = [q EXCEPT !.step = "cache"]
    OBVIOUS
  <2>2. r \in WriteRequest /\ r.op = q.op /\ r.batch = q.batch /\ r.data = q.data
    BY <1>3, <2>1 DEF WriteRequest
  <2>3. PendingOf(r) = PendingOf(q) /\ AnswerOf(r) = AnswerOf(q)
    BY <1>3, <2>2, SamePending
  <2>4. UNCHANGED <<Value, Deleted, Pending, Answers>>
    BY <1>1, <1>6, <2>1, <2>3, MappedStep DEF stored
  <2>5. Pending[s] # None /\ Pending[s].data = q.data
    BY <1>1, <1>2, PendingAt
  <2>6. q.batch[q.pos] \in Pending[s].objects
    BY <1>1, <1>2, <1>4, PendingAt
  <2>7. Store!Offer(s)
    BY <1>6, <2>4, <2>5, <2>6, StoreActions
  <2>. QED  BY <2>7, SlotStep
<1>. QED  BY <1>1, <1>5, <1>6 DEF insert_into_af_collab

(* What redis is given is no concern of the store.                           *)
LEMMA CacheImplements ==
  ASSUME StorageInv, NEW s \in Slots, CacheWritten(s)
  PROVE  Implemented
<1>1. PICK q : q = requests[s]
  OBVIOUS
<1>2. Doing(s, {"write", "batch"}) /\ UNCHANGED <<af_collab, offered>>
  BY DEF CacheWritten
<1>3. q # None /\ q.op \in {"write", "batch"} /\ q \in WriteRequest /\ q.pos \in Nat
  BY <1>1, <1>2, WriterFacts
<1>4. PICK r : r = [q EXCEPT !.step = "check", !.pos = @ + 1]
  OBVIOUS
<1>5. Becomes(s, r)
  BY <1>1, <1>4 DEF CacheWritten
<1>6. r \in WriteRequest /\ r.op = q.op /\ r.batch = q.batch /\ r.data = q.data
  <2>1. q.pos + 1 \in Nat
    BY <1>3
  <2>2. r.op = q.op /\ r.batch = q.batch /\ r.data = q.data
    BY <1>3, <1>4 DEF WriteRequest
  <2>3. r \in WriteRequest
    BY <1>3, <1>4, <2>1 DEF WriteRequest
  <2>. QED  BY <2>2, <2>3
<1>7. PendingOf(r) = PendingOf(q) /\ AnswerOf(r) = AnswerOf(q)
  BY <1>3, <1>6, SamePending
<1>. QED  BY <1>1, <1>2, <1>5, <1>7, StutterStep

(* The commit writes all of the batch, with data that was offered.           *)
LEMMA CommitImplements ==
  ASSUME StorageInv, NEW s \in Slots, Commit(s)
  PROVE  Implemented
<1>1. PICK q : q = requests[s]
  OBVIOUS
<1>2. /\ Doing(s, {"write", "batch"}) /\ Becomes(s, None) /\ UNCHANGED offered
      /\ af_collab' = [o \in Objects |-> IF o \in Written(q) THEN CommitRow(q, o) ELSE af_collab[o]]
  BY <1>1 DEF Commit, history
<1>3. /\ q # None /\ q.op \in {"write", "batch"} /\ q \in WriteRequest /\ RequestOK(q)
      /\ q.data \in Data /\ q.w \in Workspaces
  BY <1>1, <1>2, WriterFacts
<1>4. /\ Pending[s] # None /\ AnswerOf(q) = None
      /\ Pending[s].objects = InBatch(q)
      /\ Pending[s].data = q.data
  BY <1>1, <1>2, PendingAt
<1>5. Pending[s].objects = Written(q)
  BY <1>1, <1>4, AllWritten
<1>6. \A o \in Written(q) : q.data \in offered[o]
  BY <1>3 DEF RequestOK
<1>7. ASSUME NEW o \in Objects
      PROVE  /\ CommitRow(q, o) # None /\ CommitRow(q, o).blob = q.data
             /\ CommitRow(q, o).deleted <=> af_collab[o] # None /\ af_collab[o].deleted
  <2>1. CASE is_collab_exists(o)
    <3>1. af_collab[o] \in Row /\ af_collab[o] # None
      BY <2>1, Typed DEF is_collab_exists
    <3>2. /\ CommitRow(q, o) \in Row /\ CommitRow(q, o).blob = q.data
          /\ CommitRow(q, o).deleted = af_collab[o].deleted
      BY <1>3, <2>1, <3>1 DEF CommitRow, Row
    <3>. QED  BY <3>1, <3>2, NotNone
  <2>2. CASE ~is_collab_exists(o)
    <3>1. /\ CommitRow(q, o) \in Row /\ CommitRow(q, o).blob = q.data
          /\ ~CommitRow(q, o).deleted
      BY <1>3, <2>2 DEF CommitRow, Row
    <3>. QED  BY <2>2, <3>1, NotNone DEF is_collab_exists
  <2>. QED  BY <2>1, <2>2
<1>8. Value' = [o \in Objects |-> IF o \in Pending[s].objects THEN Pending[s].data ELSE Value[o]]
  <2>1. ASSUME NEW o \in Objects
        PROVE  (IF af_collab'[o] = None THEN None ELSE af_collab'[o].blob)
                 = IF o \in Written(q) THEN q.data ELSE Value[o]
    BY <1>2, <1>7 DEF Value
  <2>. QED  BY <1>4, <1>5, <2>1 DEF Value
<1>9. Deleted' = Deleted
  BY <1>2, <1>7 DEF Deleted
<1>10. /\ Pending' = [Pending EXCEPT ![s] = None]
       /\ UNCHANGED Answers
  BY <1>1, <1>2, <1>4, Idle, MappedStep
<1>11. Store!CommitAll(s)
  BY <1>2, <1>4, <1>5, <1>6, <1>8, <1>9, <1>10 DEF Store!CommitAll
<1>. QED  BY <1>11, SlotStep

(* The deletion of a row is one of the collab, which keeps its value.        *)
LEMMA DeleteImplements ==
  ASSUME StorageInv, NEW s \in Slots, delete_collab(s)
  PROVE  Implemented
<1>1. PICK o : o = requests[s].o
  OBVIOUS
<1>2. /\ requests[s] # None /\ requests[s].op = "delete" /\ Becomes(s, None)
      /\ UNCHANGED offered
      /\ af_collab' = [af_collab EXCEPT ![o] = IF @ = None THEN None ELSE [@ EXCEPT !.deleted = TRUE]]
  BY <1>1 DEF delete_collab, Doing, history
<1>3. o \in Objects
  BY <1>1, <1>2, Typed, KindOf DEF DeleteRequest
<1>4. UNCHANGED <<Pending, Answers>>
  BY <1>2, Idle, MappedStep
<1>5. CASE af_collab[o] = None
  <2>1. UNCHANGED af_collab
    BY <1>2, <1>3, <1>5, Typed
  <2>2. UNCHANGED <<Value, Deleted>>
    BY <2>1 DEF Value, Deleted
  <2>. QED  BY <1>2, <1>4, <2>2, StoreActions, SlotStep
<1>6. CASE af_collab[o] # None
  <2>1. PICK r : r = [af_collab[o] EXCEPT !.deleted = TRUE]
    OBVIOUS
  <2>2. /\ r # None /\ r.blob = af_collab[o].blob /\ r.deleted
    <3>1. af_collab[o] \in Row
      BY <1>3, <1>6, Typed
    <3>2. r \in Row /\ r.blob = af_collab[o].blob /\ r.deleted
      BY <2>1, <3>1 DEF Row
    <3>. QED  BY <3>2, NotNone
  <2>3. af_collab'[o] = r /\ \A p \in Objects : p # o => af_collab'[p] = af_collab[p]
    BY <1>2, <1>3, <1>6, <2>1, Typed
  <2>4. Value' = Value
    BY <1>6, <2>2, <2>3 DEF Value
  <2>5. Deleted' = Deleted \cup {o}
    BY <1>3, <1>6, <2>2, <2>3 DEF Deleted
  <2>6. Store!Delete(o)
    BY <1>2, <1>4, <2>4, <2>5 DEF Store!Delete
  <2>. QED  BY <1>3, <2>6 DEF Implemented, Store!StoreNext
<1>. QED  BY <1>5, <1>6

(* The entry that a deletion takes is no concern of the store.               *)
LEMMA RemoveImplements ==
  ASSUME StorageInv, NEW s \in Slots, remove_encode_collab(s)
  PROVE  Implemented
<1>1. /\ requests[s] # None /\ requests[s].op = "delete" /\ UNCHANGED <<af_collab, offered>>
  BY DEF remove_encode_collab, Doing
<1>2. requests[s] \in DeleteRequest
  BY <1>1, Typed, KindOf
<1>3. ASSUME NEW r, Becomes(s, r), r = None \/ r.op = "delete" PROVE Implemented
  BY <1>1, <1>3, Idle, StutterStep
<1>4. CASE Becomes(s, [requests[s] EXCEPT !.step = "disk"])
  <2>1. [requests[s] EXCEPT !.step = "disk"].op = "delete"
    BY <1>1, <1>2 DEF DeleteRequest
  <2>. QED  BY <1>3, <1>4, <2>1
<1>5. CASE Becomes(s, None)
  BY <1>3, <1>5
<1>. QED  BY <1>4, <1>5 DEF remove_encode_collab

(* An answer is given, and the slot is free again.                           *)
LEMMA ReplyImplements ==
  ASSUME StorageInv, NEW s \in Slots, Reply(s)
  PROVE  Implemented
<1>1. /\ requests[s] # None /\ requests[s].op = "answer" /\ Becomes(s, None)
      /\ UNCHANGED <<af_collab, offered>>
  BY DEF Reply, Doing, stored, history
<1>2. PendingOf(requests[s]) = None /\ PendingOf(None) = None /\ AnswerOf(None) = None
  BY <1>1, Idle
<1>3. /\ Answers' = [Answers EXCEPT ![s] = None]
      /\ UNCHANGED <<Value, Deleted, Pending>>
  BY <1>1, <1>2, MappedStep
<1>4. Store!Close(s)
  BY <1>1, <1>3, StoreActions
<1>. QED  BY <1>4, SlotStep

(* A request that ends early gives up its write, if it is one.               *)
LEMMA AbortImplements ==
  ASSUME StorageInv, NEW s \in Slots, Abort(s)
  PROVE  Implemented
<1>1. CASE Doing(s, {"write", "batch"})
  BY <1>1, GiveUpStep DEF Abort
<1>2. CASE ~Doing(s, {"write", "batch"})
  <2>1. /\ requests[s].op \notin {"write", "batch"} /\ requests[s].op # "answer"
        /\ Becomes(s, None) /\ UNCHANGED <<af_collab, offered>>
    BY <1>2 DEF Abort, Doing, stored, history
  <2>. QED  BY <2>1, Idle, StutterStep
<1>. QED  BY <1>1, <1>2

(* The first states of the storage are first states of the store.            *)
LEMMA InitImplements == Init => Store!StoreInit
<1>. SUFFICES ASSUME Init PROVE Store!StoreInit
  OBVIOUS
<1>1. \A o \in Objects : Stored[o] # None => Stored[o] \in Data
  OBVIOUS
<1>2. \A o \in Objects :
        Stored[o] # None => [blob |-> Stored[o], workspace |-> WorkspaceOf[o], deleted |-> FALSE] # None
  <2>1. \A o \in Objects :
          Stored[o] # None => [blob |-> Stored[o], workspace |-> WorkspaceOf[o], deleted |-> FALSE] \in Row
    BY <1>1 DEF Row
  <2>. QED  BY <2>1, NotNone
<1>3. \A o \in Objects : Value[o] = Stored[o]
  BY <1>2 DEF Init, Value
<1>4. Value \in [Objects -> Data \cup {None}]
  BY <1>1, <1>3 DEF Value
<1>5. Deleted = {}
  BY <1>2 DEF Init, Deleted
<1>6. offered = [o \in Objects |-> {Value[o]} \ {None}]
  BY <1>3 DEF Init
<1>7. Pending = [s \in Slots |-> None] /\ Answers = [s \in Slots |-> None]
  BY Idle DEF Init, Pending, Answers
<1>. QED  BY <1>4, <1>5, <1>6, <1>7 DEF Store!StoreInit

(* Every step of the storage is a step of the store, or none.                *)
LEMMA NextImplements == StorageInv /\ [Next]_vars => Implemented
<1>. SUFFICES ASSUME StorageInv, [Next]_vars PROVE Implemented
  OBVIOUS
<1>1. ASSUME UNCHANGED <<af_collab, requests, offered>> PROVE Implemented
  <2>1. UNCHANGED <<Value, Deleted, Pending, Answers>>
    BY <1>1 DEF Value, Deleted, Pending, Answers, PendingOf, AnswerOf
  <2>. QED  BY <1>1, <2>1 DEF Implemented, Store!storeVars
<1>2. CASE UNCHANGED vars
  BY <1>1, <1>2 DEF vars, stored, history
<1>3. ASSUME NEW s \in Slots, Step(s) PROVE Implemented
  <2>1. CASE Check(s) \/ insert_into_af_collab(s) \/ CacheWritten(s) \/ Commit(s)
    BY <2>1, CheckImplements, UpsertImplements, CacheImplements, CommitImplements
  <2>2. CASE \/ GetFromMem(s) \/ GetFromDisk(s) \/ batch_get_encode_collab(s)
             \/ batch_select_collab_blob(s)
    BY <2>2, GetImplements
  <2>3. CASE insert_encode_collab(s) \/ remove_encode_collab(s) \/ delete_collab(s)
    BY <2>3, FillImplements, RemoveImplements, DeleteImplements
  <2>4. CASE Reply(s) \/ Abort(s)
    BY <2>4, ReplyImplements, AbortImplements
  <2>. QED  BY <1>3, <2>1, <2>2, <2>3, <2>4 DEF Step
<1>4. ASSUME NEW s \in Slots, Handle(s) PROVE Implemented
  BY <1>4, HandleImplements
<1>5. ASSUME NEW o \in Objects, Expire(o) PROVE Implemented
  BY <1>1, <1>5 DEF Expire
<1>. QED  BY <1>2, <1>3, <1>4, <1>5 DEF Next

(* The storage implements the store: a write takes effect on all of its      *)
(* collabs or on none, and a reader gets what was written to the collab by   *)
(* a request that was allowed to.                                            *)
THEOREM StorageImplementsStore == Spec => ImplementsStore
<1>1. StorageInv /\ [Next]_vars => [Store!StoreNext]_(Store!storeVars)
  BY NextImplements DEF Implemented
<1>. QED  BY AlwaysStorageInv, InitImplements, <1>1, PTL DEF Spec, ImplementsStore, Store!StoreSpec
=============================================================================
