--------------------------- MODULE CollabDocument ---------------------------
(***************************************************************************)
(* What the clients of a collab may rely on, whatever the sinks, channels, *)
(* subscriptions and groups between them do: a client's document never     *)
(* loses an update; a client only learns of updates while it is subscribed, *)
(* and only of those the server has accepted; the server accepts what the  *)
(* sender has made or learnt; and the server's document only grows while   *)
(* anybody is subscribed to it.  It may go back to something made before   *)
(* in a step that cuts everybody off, and when it is loaded.  It is loaded *)
(* when nobody is subscribed, or, if a second task may load it, in a step  *)
(* that drops everybody but, at most, the client it is loaded for.         *)
(***************************************************************************)
CONSTANTS
  Clients, Updates,
  Stored,      \* the updates that were there before the clients
  Replaceable  \* whether the document may be loaded while it is in use

VARIABLES
  replica,   \* the document of each client
  document,  \* that of the server
  joined     \* the clients that are subscribed to it

documentVars == <<replica, document, joined>>

Everything == Stored \cup UNION {replica[c] : c \in Clients}

DocumentInit ==
  /\ replica \in [Clients -> SUBSET Updates]
  /\ document \in SUBSET Stored
  /\ joined \in SUBSET Clients

Make(c, u) ==
  /\ u \notin Everything
  /\ replica' = [replica EXCEPT ![c] = @ \cup {u}]
  /\ UNCHANGED <<document, joined>>

Learn(c) ==
  /\ c \in joined
  /\ \E news \in SUBSET document : replica' = [replica EXCEPT ![c] = @ \cup news]
  /\ UNCHANGED <<document, joined>>

(* Who sends is subscribed by it, if it was not.                           *)
Accept(c) ==
  /\ \E sent \in SUBSET replica[c] : document' = document \cup sent
  /\ joined' \in {joined, joined \cup {c}}
  /\ UNCHANGED replica

(* A client joins without the document, or with all of it.                 *)
Join(c) ==
  /\ joined' = joined \cup {c}
  /\ \E reply \in {{}, document} : replica' = [replica EXCEPT ![c] = @ \cup reply]
  /\ UNCHANGED document

Leave(c) ==
  /\ joined' = joined \ {c}
  /\ UNCHANGED <<replica, document>>

(* Everybody is gone, or is cut off.                                       *)
Close ==
  /\ joined' = {}
  /\ document' \in SUBSET Everything
  /\ UNCHANGED replica

(* The document is loaded for c, which may learn it.  Whoever was joined is *)
(* so no longer, and is not told.                                          *)
Load(c) ==
  /\ joined = {} \/ Replaceable
  /\ joined' \subseteq {c}
  /\ document' \in SUBSET Everything
  /\ \E reply \in {{}, document'} : replica' = [replica EXCEPT ![c] = @ \cup reply]

DocumentNext ==
  \/ Close
  \/ \E c \in Clients :
       \/ \E u \in Updates : Make(c, u)
       \/ Learn(c) \/ Accept(c) \/ Join(c) \/ Leave(c) \/ Load(c)

DocumentSpec == DocumentInit /\ [][DocumentNext]_documentVars
=============================================================================
