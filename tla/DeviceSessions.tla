--------------------------- MODULE DeviceSessions ---------------------------
(***************************************************************************)
(* What the realtime server promises a device, whatever its mailbox, its   *)
(* runners and its ticks do: one connection serves the device at a time, a *)
(* connection that was replaced or has ended never serves it again, the    *)
(* device is only in groups it joined since that connection began and it   *)
(* leaves them all, at once, when the connection is replaced or ends.      *)
(***************************************************************************)
CONSTANTS Devices, Objects, Connections, None

VARIABLES
  serving,  \* the connection that serves each device, or None
  over,     \* the connections that will not serve any more
  members   \* the devices that take part in the group of each object

sessionVars == <<serving, over, members>>

SessionInit ==
  /\ serving = [d \in Devices |-> None]
  /\ over = {}
  /\ members = [o \in Objects |-> {}]

Served == {d \in Devices : serving[d] # None}
Left(d) == [o \in Objects |-> members[o] \ {d}]

(* A new connection of the device serves it from now on.                   *)
Connect(d, c) ==
  /\ c \notin over
  /\ \A e \in Devices : serving[e] # c
  /\ serving' = [serving EXCEPT ![d] = c]
  /\ over' = over \cup ({serving[d]} \ {None})
  /\ members' = Left(d)

(* The connection of the device ends.                                      *)
Disconnect(d) ==
  /\ d \in Served
  /\ serving' = [serving EXCEPT ![d] = None]
  /\ over' = over \cup {serving[d]}
  /\ members' = Left(d)

Join(d, o) ==
  /\ d \in Served
  /\ members' = [members EXCEPT ![o] = @ \cup {d}]
  /\ UNCHANGED <<serving, over>>

(* The group is loaded anew, which everybody drops out of, for a connection *)
(* of the device that may have ended or been replaced meanwhile.           *)
Reload(d, o) ==
  /\ \E joined \in SUBSET ({d} \cap Served) : members' = [members EXCEPT ![o] = joined]
  /\ UNCHANGED <<serving, over>>

SessionNext ==
  \E d \in Devices :
    \/ Disconnect(d) \/ \E c \in Connections : Connect(d, c)
    \/ \E o \in Objects : Join(d, o) \/ Reload(d, o)

SessionSpec == SessionInit /\ [][SessionNext]_sessionVars
=============================================================================
