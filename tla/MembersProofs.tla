---------------------------- MODULE MembersProofs ----------------------------
(* Proofs about Members and AccessControl, for any finite sets of users,    *)
(* workspaces and documents and any number of requests handled at once.     *)
EXTENDS Members, FiniteSetTheorems, TLAPS

(* The notifications of the two channels are about different tables.        *)
RoleNotice == [u : Users, oid : Workspaces, act : AFRole \cup {None}]
LevelNotice == [u : Users, oid : Collabs, act : AFAccessLevel \cup {None}]

(* What a request that waits for its commit was asked for.                  *)
WellFormed(q) ==
  /\ q.op \in {"signUp", "create", "addMember", "accept", "removeMember", "updateMember"}
       => q.oid \in Workspaces
  /\ q.op \in {"addMember", "accept", "updateMember"} => q.act \in AFRole
  /\ q.op = "setLevel" => q.act \in AFAccessLevel

Shapes ==
  /\ \A s \in Slots : requests[s] # None => WellFormed(requests[s])
  /\ workspaceNotices \in Seq(RoleNotice)
  /\ collabNotices \in Seq(LevelNotice)

RolesAdmitted ==
  \A w \in Workspaces, u \in Users : role[w][u] # None =>
    \/ PolicyOf(u, Workspace(w), role[w][u]) \in policies
    \/ Announced(workspaceNotices, u, w, role[w][u])
LevelsAdmitted ==
  \A o \in Collabs, u \in Users : level[o][u] # None =>
    \/ PolicyOf(u, Collab(o), level[o][u]) \in policies
    \/ Announced(collabNotices, u, o, level[o][u])

(* The answer of a check that is not stored yet.                            *)
ChecksPermitted == \A c \in checks : enforce_action(c.key[1], c.key[2], c.action)

(* The inductive invariant.  A notice can only bring a policy if it is      *)
(* about the right table, and a commit only writes such rows if the         *)
(* requests that wait are well formed.                                      *)
MembersInv ==
  /\ TypeOK /\ Shapes
  /\ RolesAdmitted /\ LevelsAdmitted /\ OwnerStays
  /\ ChecksPermitted /\ CacheIsPermitted

(* What all operations have in common: no policy is lost while the server   *)
(* runs, since policies_for_subject_with_given_object finds none to remove. *)
Grows ==
  /\ policies \subseteq policies' /\ policies' \subseteq Policy
  /\ changes' \in Seq(Watched)
  /\ UNCHANGED <<action_by_oid, checks>>

USE AccessAssumption, MembersAssumption

-----------------------------------------------------------------------------
(* Listed enumerates a finite set.                                          *)
LEMMA ListedFacts ==
  ASSUME NEW S, IsFiniteSet(S)
  PROVE  /\ Cardinality(S) \in Nat
         /\ Listed(S) \in [1 .. Cardinality(S) -> S]
         /\ \A x \in S : \E i \in 1 .. Cardinality(S) : Listed(S)[i] = x
<1>1. Cardinality(S) \in Nat /\ ExistsBijection(1 .. Cardinality(S), S)
  BY FS_CardinalityType
<1>2. PICK f \in Bijection(1 .. Cardinality(S), S) : TRUE
  BY <1>1 DEF ExistsBijection
<1>3. /\ f \in [1 .. Cardinality(S) -> S]
      /\ \A x \in S : \E i \in 1 .. Cardinality(S) : f[i] = x
  BY <1>2 DEF Bijection, Surjection
<1>31. \A x \in S : \E i \in DOMAIN f : f[i] = x
  <2>1. DOMAIN f = 1 .. Cardinality(S)
    BY <1>3
  <2>. QED  BY <1>3, <2>1
<1>4. \E g \in [1 .. Cardinality(S) -> S] : \A x \in S : \E i \in DOMAIN g : g[i] = x
  BY <1>3, <1>31
<1>5. /\ Listed(S) \in [1 .. Cardinality(S) -> S]
      /\ \A x \in S : \E i \in DOMAIN Listed(S) : Listed(S)[i] = x
  BY <1>4 DEF Listed
<1>. QED  BY <1>1, <1>5

(* The listed elements of a finite subset are a sequence of the elements.   *)
LEMMA ListedSeq ==
  ASSUME NEW T, NEW S \in SUBSET T, IsFiniteSet(S)
  PROVE  Listed(S) \in Seq(T)
<1>1. Cardinality(S) \in Nat /\ Listed(S) \in [1 .. Cardinality(S) -> S]
  BY ListedFacts
<1>2. Listed(S) \in [1 .. Cardinality(S) -> T]
  BY <1>1
<1>. QED  BY <1>1, <1>2

(* Whoever is watched is one of finitely many.                              *)
LEMMA WatchedFinite == IsFiniteSet(Watched)
<1>1. IsFiniteSet(Users \X Collabs)
  BY FS_Product
<1>. QED  BY <1>1, FS_Subset

-----------------------------------------------------------------------------
(* remove_policy removes nothing: no object is a user.                      *)
LEMMA RemovedNothing ==
  ASSUME NEW S \in SUBSET Policy, NEW u \in Users, NEW obj
  PROVE  Removed(S, u, obj) = S
<1>1. \A p \in S : p.obj \in Object
  BY DEF Policy
<1>2. PoliciesOf(S, u, obj) = {}
  BY <1>1 DEF PoliciesOf
<1>. QED  BY <1>2 DEF Removed

(* update_policy adds a policy that fits the object, or nothing.            *)
LEMMA UpdatedFacts ==
  ASSUME NEW S \in SUBSET Policy, NEW u \in Users, NEW obj \in Object, NEW act
  PROVE  /\ Updated(S, u, obj, act) \subseteq Policy
         /\ S \subseteq Updated(S, u, obj, act)
         /\ validate_obj_action(obj, act) => PolicyOf(u, obj, act) \in Updated(S, u, obj, act)
<1>1. validate_obj_action(obj, act) => PolicyOf(u, obj, act) \in Policy
  BY DEF validate_obj_action, PolicyOf, Policy
<1>. QED  BY <1>1 DEF Updated

(* What is sent to the realtime cache is one of its keys.                   *)
LEMMA ChangeType ==
  ASSUME NEW u, NEW obj
  PROVE  Change(u, obj) \in Seq(Watched)
  BY DEF Change

(* Ids make objects.                                                        *)
LEMMA ObjectTypes ==
  /\ \A w \in Workspaces : Workspace(w) \in Object /\ Collab(w) \in Object /\ w \in Collabs
  /\ \A o \in Collabs : Collab(o) \in Object
  BY DEF Object, Collabs

(* A role is a level on the folder.                                         *)
LEMMA LevelOfType ==
  ASSUME NEW r \in AFRole
  PROVE  LevelOf(r) \in AFAccessLevel
  BY DEF LevelOf, AFRole, AFAccessLevel

(* Adding a role adds policies.                                             *)
LEMMA RolePoliciesGrow ==
  ASSUME NEW S \in SUBSET Policy, NEW u \in Users, NEW w \in Workspaces, NEW r \in AFRole
  PROVE  S \subseteq RolePolicies(S, u, w, r) /\ RolePolicies(S, u, w, r) \subseteq Policy
<1>. DEFINE T == Updated(S, u, Workspace(w), r)
<1>1. T \subseteq Policy /\ S \subseteq T
  BY UpdatedFacts, ObjectTypes
<1>2. /\ Updated(T, u, Collab(w), LevelOf(r)) \subseteq Policy
      /\ T \subseteq Updated(T, u, Collab(w), LevelOf(r))
  <2>. HIDE DEF T
  <2>. QED  BY <1>1, UpdatedFacts, ObjectTypes
<1>. QED  BY <1>1, <1>2 DEF RolePolicies

(* The operations on the enforcer lose no policy.                           *)
LEMMA EnforcerGrows ==
  ASSUME TypeOK, NEW u \in Users, NEW w \in Workspaces, NEW r \in AFRole, NEW obj \in Object,
         NEW act
  PROVE  /\ update_policy(u, obj, act) => Grows
         /\ remove_policy(u, obj) => Grows
         /\ insert_role(u, w, r) => Grows
         /\ remove_role(u, w) => Grows
<1>. DEFINE c1 == Change(u, obj)
            c2 == Change(u, Workspace(w))
            c3 == Change(u, Collab(w))
<1>1. policies \subseteq Policy /\ changes \in Seq(Watched)
  BY DEF TypeOK, AccessTypeOK
<1>2. c1 \in Seq(Watched) /\ c2 \in Seq(Watched) /\ c3 \in Seq(Watched)
  BY ChangeType
<1>3. changes \o c1 \in Seq(Watched) /\ changes \o c2 \o c3 \in Seq(Watched)
  <2>. HIDE DEF c1, c2, c3
  <2>. QED  BY <1>1, <1>2
<1>4. update_policy(u, obj, act) => Grows
  BY <1>1, <1>3, UpdatedFacts DEF update_policy, Grows
<1>5. remove_policy(u, obj) => Grows
  BY <1>1, <1>3, RemovedNothing DEF remove_policy, Grows
<1>6. insert_role(u, w, r) => Grows
  BY <1>1, <1>3, RolePoliciesGrow DEF insert_role, Grows
<1>7. remove_role(u, w) => Grows
  <2>1. Removed(policies, u, Workspace(w)) = policies /\ Removed(policies, u, Collab(w)) = policies
    BY <1>1, RemovedNothing
  <2>. QED  BY <1>1, <1>3, <2>1 DEF remove_role, Grows
<1>. QED  BY <1>4, <1>5, <1>6, <1>7

(* A new workspace brings policies for its owner.                           *)
LEMMA NewWorkspaceGrows ==
  ASSUME TypeOK, NEW u \in Users, NEW w \in Workspaces, initialize_workspace_for_user(u, w)
  PROVE  Grows
<1>. DEFINE c2 == Change(u, Workspace(w))
            c3 == Change(u, Collab(w))
            W == Watched \cap ({u} \X Templates(w))
            P == {PolicyOf(u, Collab(o), "FullAccess") : o \in Templates(w)}
<1>1. policies \subseteq Policy /\ changes \in Seq(Watched)
  BY DEF TypeOK, AccessTypeOK
<1>2. c2 \in Seq(Watched) /\ c3 \in Seq(Watched)
  BY ChangeType
<1>3. Listed(W) \in Seq(Watched)
  <2>1. W \subseteq Watched
    OBVIOUS
  <2>2. IsFiniteSet(W)
    BY <2>1, WatchedFinite, FS_Subset
  <2>. QED  BY <2>1, <2>2, ListedSeq
<1>4. changes' = changes \o c2 \o c3 \o Listed(W)
  BY DEF initialize_workspace_for_user
<1>5. changes' \in Seq(Watched)
  <2>. HIDE DEF c2, c3, W
  <2>. QED  BY <1>1, <1>2, <1>3, <1>4
<1>6. P \subseteq Policy
  <2>1. \A o \in Templates(w) : PolicyOf(u, Collab(o), "FullAccess") \in Policy
    BY ObjectTypes DEF Templates, PolicyOf, Policy, AFAccessLevel
  <2>. QED  BY <2>1
<1>7. "Owner" \in AFRole
  BY DEF AFRole
<1>8. policies' = RolePolicies(policies, u, w, "Owner") \cup P
  BY DEF initialize_workspace_for_user
<1>9. policies \subseteq policies' /\ policies' \subseteq Policy
  BY <1>1, <1>6, <1>7, <1>8, RolePoliciesGrow
<1>. QED  BY <1>5, <1>9 DEF initialize_workspace_for_user, Grows

(* What was granted stays granted.                                          *)
LEMMA GrantsStay ==
  ASSUME ChecksPermitted, CacheIsPermitted, Grows
  PROVE  ChecksPermitted' /\ CacheIsPermitted'
<1>1. policies \subseteq policies' /\ UNCHANGED <<action_by_oid, checks>>
  BY DEF Grows
<1>2. \A u, o, a : enforce_action(u, o, a) => enforce_action(u, o, a)'
  BY <1>1 DEF enforce_action, enforce_policy
<1>. QED  BY <1>1, <1>2 DEF ChecksPermitted, CacheIsPermitted

-----------------------------------------------------------------------------
(* A notification announces what it says.                                   *)
LEMMA Announcing ==
  ASSUME NEW T, NEW q \in Seq(T), NEW n \in T
  PROVE  /\ Announced(Append(q, n), n.u, n.oid, n.act)
         /\ \A u, oid, act : Announced(q, u, oid, act) => Announced(Append(q, n), u, oid, act)
<1>1. /\ DOMAIN Append(q, n) = 1 .. Len(q) + 1 /\ Append(q, n)[Len(q) + 1] = n
      /\ DOMAIN q = 1 .. Len(q) /\ Len(q) \in Nat
      /\ \A i \in DOMAIN q : Append(q, n)[i] = q[i]
  OBVIOUS
<1>2. Len(q) + 1 \in DOMAIN Append(q, n) /\ \A i \in DOMAIN q : i \in DOMAIN Append(q, n)
  BY <1>1
<1>. QED  BY <1>1, <1>2 DEF Announced

(* So do several.                                                           *)
LEMMA AnnouncingAll ==
  ASSUME NEW T, NEW q \in Seq(T), NEW r \in Seq(T)
  PROVE  /\ q \o r \in Seq(T)
         /\ \A u, oid, act : Announced(q, u, oid, act) \/ Announced(r, u, oid, act)
                              => Announced(q \o r, u, oid, act)
<1>1. /\ q \o r \in Seq(T) /\ DOMAIN (q \o r) = 1 .. Len(q) + Len(r)
      /\ Len(q) \in Nat /\ Len(r) \in Nat
      /\ DOMAIN q = 1 .. Len(q) /\ DOMAIN r = 1 .. Len(r)
      /\ \A i \in DOMAIN q : (q \o r)[i] = q[i]
      /\ \A i \in DOMAIN r : (q \o r)[Len(q) + i] = r[i]
  OBVIOUS
<1>2. /\ \A i \in DOMAIN q : i \in DOMAIN (q \o r)
      /\ \A i \in DOMAIN r : Len(q) + i \in DOMAIN (q \o r)
  BY <1>1
<1>. QED  BY <1>1, <1>2 DEF Announced

(* Taking the first notification off leaves the others.                     *)
LEMMA Heard ==
  ASSUME NEW T, NEW q \in Seq(T), q # <<>>, NEW u, NEW oid, NEW act,
         Announced(q, u, oid, act)
  PROVE  \/ Announced(Tail(q), u, oid, act)
         \/ Head(q).u = u /\ Head(q).oid = oid /\ Head(q).act = act
<1>1. PICK i \in DOMAIN q : q[i].u = u /\ q[i].oid = oid /\ q[i].act = act
  BY DEF Announced
<1>2. CASE i = 1
  BY <1>1, <1>2
<1>3. CASE i # 1
  <2>1. i - 1 \in DOMAIN Tail(q) /\ Tail(q)[i - 1] = q[i]
    BY <1>3
  <2>. QED  BY <1>1, <2>1 DEF Announced
<1>. QED  BY <1>2, <1>3

(* Writing the role of a member, with its notification.                     *)
LEMMA RoleWritten ==
  ASSUME MembersInv, policies \subseteq policies',
         NEW w \in Workspaces, NEW u \in Users, NEW r \in AFRole \cup {None},
         role' = [role EXCEPT ![w][u] = r],
         workspaceNotices' = Append(workspaceNotices, Notify(u, w, r))
  PROVE  /\ role' \in [Workspaces -> [Users -> AFRole \cup {None}]]
         /\ workspaceNotices' \in Seq(RoleNotice)
         /\ RolesAdmitted'
<1>. DEFINE n == Notify(u, w, r)
<1>1. role \in [Workspaces -> [Users -> AFRole \cup {None}]] /\ workspaceNotices \in Seq(RoleNotice)
  BY DEF MembersInv, TypeOK, Shapes
<1>2. n \in RoleNotice /\ n.u = u /\ n.oid = w /\ n.act = r
  BY DEF RoleNotice, Notify
<1>3. /\ role' \in [Workspaces -> [Users -> AFRole \cup {None}]]
      /\ role'[w][u] = r
      /\ \A v \in Workspaces, x \in Users : <<v, x>> # <<w, u>> => role'[v][x] = role[v][x]
  BY <1>1
<1>. HIDE DEF n
<1>4. workspaceNotices' \in Seq(RoleNotice)
  BY <1>1, <1>2 DEF n
<1>5. /\ Announced(workspaceNotices', u, w, r)
      /\ \A x, v, act : Announced(workspaceNotices, x, v, act)
                         => Announced(workspaceNotices', x, v, act)
  BY <1>1, <1>2, Announcing DEF n
<1>6. ASSUME NEW v \in Workspaces, NEW x \in Users, role'[v][x] # None
      PROVE  \/ PolicyOf(x, Workspace(v), role'[v][x]) \in policies'
             \/ Announced(workspaceNotices', x, v, role'[v][x])
  <2>1. CASE v = w /\ x = u
    BY <1>3, <1>5, <2>1
  <2>2. CASE ~(v = w /\ x = u)
    <3>1. role'[v][x] = role[v][x]
      BY <1>3, <2>2
    <3>. QED  BY <1>5, <1>6, <3>1 DEF MembersInv, RolesAdmitted
  <2>. QED  BY <2>1, <2>2
<1>. QED  BY <1>3, <1>4, <1>6 DEF RolesAdmitted

(* Writing the level of a member, with its notification.                    *)
LEMMA LevelWritten ==
  ASSUME MembersInv, policies \subseteq policies',
         NEW o \in Collabs, NEW u \in Users, NEW l \in AFAccessLevel \cup {None},
         level' = [level EXCEPT ![o][u] = l],
         collabNotices' = Append(collabNotices, Notify(u, o, l))
  PROVE  /\ level' \in [Collabs -> [Users -> AFAccessLevel \cup {None}]]
         /\ collabNotices' \in Seq(LevelNotice)
         /\ LevelsAdmitted'
<1>. DEFINE n == Notify(u, o, l)
<1>1. /\ level \in [Collabs -> [Users -> AFAccessLevel \cup {None}]]
      /\ collabNotices \in Seq(LevelNotice)
  BY DEF MembersInv, TypeOK, Shapes
<1>2. n \in LevelNotice /\ n.u = u /\ n.oid = o /\ n.act = l
  BY DEF LevelNotice, Notify
<1>3. /\ level' \in [Collabs -> [Users -> AFAccessLevel \cup {None}]]
      /\ level'[o][u] = l
      /\ \A v \in Collabs, x \in Users : <<v, x>> # <<o, u>> => level'[v][x] = level[v][x]
  BY <1>1
<1>. HIDE DEF n
<1>4. collabNotices' \in Seq(LevelNotice)
  BY <1>1, <1>2 DEF n
<1>5. /\ Announced(collabNotices', u, o, l)
      /\ \A x, v, act : Announced(collabNotices, x, v, act)
                         => Announced(collabNotices', x, v, act)
  BY <1>1, <1>2, Announcing DEF n
<1>6. ASSUME NEW v \in Collabs, NEW x \in Users, level'[v][x] # None
      PROVE  \/ PolicyOf(x, Collab(v), level'[v][x]) \in policies'
             \/ Announced(collabNotices', x, v, level'[v][x])
  <2>1. CASE v = o /\ x = u
    BY <1>3, <1>5, <2>1
  <2>2. CASE ~(v = o /\ x = u)
    <3>1. level'[v][x] = level[v][x]
      BY <1>3, <2>2
    <3>. QED  BY <1>5, <1>6, <3>1 DEF MembersInv, LevelsAdmitted
  <2>. QED  BY <2>1, <2>2
<1>. QED  BY <1>3, <1>4, <1>6 DEF LevelsAdmitted

(* Tables and notices that stay the same stay admitted.                     *)
LEMMA StillAdmitted ==
  ASSUME MembersInv, policies \subseteq policies'
  PROVE  /\ UNCHANGED <<role, workspaceNotices>> => RolesAdmitted'
         /\ UNCHANGED <<level, collabNotices>> => LevelsAdmitted'
<1>1. UNCHANGED <<role, workspaceNotices>> => RolesAdmitted'
  BY DEF MembersInv, RolesAdmitted
<1>2. UNCHANGED <<level, collabNotices>> => LevelsAdmitted'
  BY DEF MembersInv, LevelsAdmitted
<1>. QED  BY <1>1, <1>2

(* The parts of the invariant after a step that loses no policy.            *)
LEMMA Assembled ==
  ASSUME MembersInv, Grows,
         users' \subseteq Users,
         owner' \in [Workspaces -> Users \cup {None}],
         role' \in [Workspaces -> [Users -> AFRole \cup {None}]],
         level' \in [Collabs -> [Users -> AFAccessLevel \cup {None}]],
         invitations' \subseteq Invitation,
         requests' \in [Slots -> Request \cup {None}],
         issued' \subseteq Workspaces, asked' \in 0 .. MaxRequests,
         restarts' \in 0 .. MaxRestarts,
         Shapes', RolesAdmitted', LevelsAdmitted', OwnerStays'
  PROVE  MembersInv' /\ policies \subseteq policies'
<1>1. AccessTypeOK'
  BY DEF MembersInv, TypeOK, AccessTypeOK, Grows
<1>2. RoleNotice \subseteq Notice /\ LevelNotice \subseteq Notice
  BY DEF RoleNotice, LevelNotice, Notice, Collabs
<1>3. workspaceNotices' \in Seq(Notice) /\ collabNotices' \in Seq(Notice)
  BY <1>2 DEF Shapes
<1>4. TypeOK'
  BY <1>1, <1>3 DEF TypeOK
<1>5. ChecksPermitted' /\ CacheIsPermitted'
  BY GrantsStay DEF MembersInv
<1>. QED  BY <1>4, <1>5 DEF MembersInv, Grows

(* The types of a state, to be cited.                                       *)
LEMMA Typed ==
  ASSUME MembersInv
  PROVE  /\ policies \subseteq Policy /\ changes \in Seq(Watched)
         /\ users \subseteq Users
         /\ owner \in [Workspaces -> Users \cup {None}]
         /\ role \in [Workspaces -> [Users -> AFRole \cup {None}]]
         /\ level \in [Collabs -> [Users -> AFAccessLevel \cup {None}]]
         /\ invitations \subseteq Invitation
         /\ requests \in [Slots -> Request \cup {None}]
         /\ issued \subseteq Workspaces /\ asked \in 0 .. MaxRequests
         /\ restarts \in 0 .. MaxRestarts
  BY DEF MembersInv, TypeOK, AccessTypeOK

(* A step that leaves the enforcer alone loses no policy either.            *)
LEMMA QuietGrows ==
  ASSUME MembersInv, UNCHANGED accessVars
  PROVE  Grows
  BY Typed DEF accessVars, Grows

(* A request is asked for: the counter stays within its bound.              *)
LEMMA AskType ==
  ASSUME MembersInv, Ask
  PROVE  asked' \in 0 .. MaxRequests
  BY Typed DEF Ask

(* The first step of a request changes the enforcer and holds the slot.     *)
LEMMA HoldStep ==
  ASSUME MembersInv, Grows, UNCHANGED <<tables, notices>>, NEW s \in Slots,
         NEW op, NEW u \in Users, NEW oid \in Collabs,
         NEW act \in AFRole \cup AFAccessLevel \cup {None},
         Hold(s, op, u, oid, act),
         op \in {"signUp", "create", "addMember", "accept", "removeMember", "updateMember",
                 "setLevel", "dropLevel"},
         WellFormed([op |-> op, u |-> u, oid |-> oid, act |-> act]),
         issued' \subseteq Workspaces, asked' \in 0 .. MaxRequests,
         restarts' \in 0 .. MaxRestarts
  PROVE  MembersInv' /\ policies \subseteq policies'
<1>. DEFINE q == [op |-> op, u |-> u, oid |-> oid, act |-> act]
<1>1. q \in Request
  BY DEF Request
<1>. HIDE DEF q
<1>2. requests' = [requests EXCEPT ![s] = q] /\ WellFormed(q)
  BY DEF Hold, q
<1>3. requests' \in [Slots -> Request \cup {None}]
  BY <1>1, <1>2, Typed
<1>4. UNCHANGED <<users, owner, role, level, invitations, workspaceNotices, collabNotices>>
  BY DEF tables, notices
<1>5. Shapes'
  <2>1. \A t \in Slots : requests'[t] # None => WellFormed(requests'[t])
    BY <1>2, Typed DEF MembersInv, Shapes
  <2>2. workspaceNotices' \in Seq(RoleNotice) /\ collabNotices' \in Seq(LevelNotice)
    BY <1>4 DEF MembersInv, Shapes
  <2>. QED  BY <2>1, <2>2 DEF Shapes
<1>6. RolesAdmitted' /\ LevelsAdmitted'
  BY <1>4, StillAdmitted DEF Grows
<1>7. OwnerStays'
  BY <1>4 DEF MembersInv, OwnerStays
<1>. QED  BY <1>3, <1>4, <1>5, <1>6, <1>7, Typed, Assembled

-----------------------------------------------------------------------------
(* A sign-up and the making of a workspace.                                 *)
LEMMA NewWorkspaceStep ==
  ASSUME MembersInv, NEW s \in Slots,
         verify_user_handler(s) \/ create_workspace_handler(s)
  PROVE  MembersInv' /\ policies \subseteq policies'
<1>1. \E op \in {"signUp", "create"}, u \in Users, w \in Workspaces :
        /\ NewWorkspace(s, op, u, w)
        /\ UNCHANGED <<tables, notices, restarts>>
        /\ asked' \in 0 .. MaxRequests
  <2>1. CASE verify_user_handler(s)
    BY <2>1, Typed DEF verify_user_handler, verify_token
  <2>2. CASE create_workspace_handler(s)
    <3>1. asked' \in 0 .. MaxRequests
      BY <2>2, AskType DEF create_workspace_handler
    <3>. QED  BY <2>2, <3>1, Typed DEF create_workspace_handler, create_workspace_for_user
  <2>. QED  BY <2>1, <2>2
<1>2. PICK op \in {"signUp", "create"}, u \in Users, w \in Workspaces :
        /\ NewWorkspace(s, op, u, w)
        /\ UNCHANGED <<tables, notices, restarts>>
        /\ asked' \in 0 .. MaxRequests
  BY <1>1
<1>3. Grows
  BY <1>2, NewWorkspaceGrows DEF MembersInv, NewWorkspace
<1>4. /\ Hold(s, op, u, w, None)
      /\ issued' \subseteq Workspaces /\ restarts' \in 0 .. MaxRestarts
      /\ w \in Collabs
      /\ op \in {"signUp", "create", "addMember", "accept", "removeMember", "updateMember",
                 "setLevel", "dropLevel"}
  BY <1>2, Typed DEF NewWorkspace, Collabs
<1>5. WellFormed([op |-> op, u |-> u, oid |-> w, act |-> None])
  BY <1>2 DEF WellFormed
<1>. QED  BY <1>2, <1>3, <1>4, <1>5, HoldStep

(* The requests about one member of a workspace that change the enforcer    *)
(* first: accepting, adding, removing, leaving.                             *)
LEMMA MemberStep ==
  ASSUME MembersInv, NEW s \in Slots,
         \/ post_accept_workspace_invite_handler(s)
         \/ create_workspace_members_handler(s)
         \/ remove_workspace_member_handler(s)
         \/ leave_workspace_handler(s)
  PROVE  MembersInv' /\ policies \subseteq policies'
<1>. DEFINE P(op, u, w, act) ==
       /\ Hold(s, op, u, w, act)
       /\ UNCHANGED <<tables, notices, issued, restarts>>
       /\ op \in {"addMember", "accept"} => act \in AFRole /\ insert_role(u, w, act)
       /\ op = "removeMember" => act = None /\ remove_role(u, w)
<1>1. asked' \in 0 .. MaxRequests
  BY AskType DEF post_accept_workspace_invite_handler, create_workspace_members_handler,
       remove_workspace_member_handler, leave_workspace_handler
<1>2. \E op \in {"addMember", "accept", "removeMember"}, u \in Users, w \in Workspaces,
         act \in AFRole \cup {None} : P(op, u, w, act)
  <2>1. CASE post_accept_workspace_invite_handler(s)
    <3>1. PICK i \in invitations : accept_workspace_invite(s, i)
      BY <2>1 DEF post_accept_workspace_invite_handler
    <3>2. i.u \in Users /\ i.w \in Workspaces /\ i.role \in AFRole
      BY Typed DEF Invitation
    <3>3. P("accept", i.u, i.w, i.role)
      BY <3>1, <3>2 DEF accept_workspace_invite
    <3>. QED  BY <3>2, <3>3
  <2>2. CASE create_workspace_members_handler(s)
    <3>1. PICK w \in Workspaces, u \in users, r \in AFRole : add_workspace_members(s, w, u, r)
      BY <2>2 DEF create_workspace_members_handler, There
    <3>2. P("addMember", u, w, r)
      BY <3>1 DEF add_workspace_members
    <3>. QED  BY <3>1, <3>2, Typed
  <2>3. CASE remove_workspace_member_handler(s) \/ leave_workspace_handler(s)
    <3>1. PICK w \in Workspaces, u \in users : remove_workspace_members(s, w, u)
      BY <2>3 DEF remove_workspace_member_handler, leave_workspace_handler, leave_workspace, There
    <3>2. P("removeMember", u, w, None)
      BY <3>1 DEF remove_workspace_members
    <3>. QED  BY <3>1, <3>2, Typed
  <2>. QED  BY <2>1, <2>2, <2>3
<1>3. PICK op \in {"addMember", "accept", "removeMember"}, u \in Users, w \in Workspaces,
         act \in AFRole \cup {None} : P(op, u, w, act)
  BY <1>2
<1>4. Grows
  <2>1. CASE op = "removeMember"
    <3>1. "Owner" \in AFRole /\ Workspace(w) \in Object
      BY ObjectTypes DEF AFRole
    <3>. QED  BY <1>3, <2>1, <3>1, EnforcerGrows DEF MembersInv
  <2>2. CASE op # "removeMember"
    <3>1. Workspace(w) \in Object
      BY ObjectTypes
    <3>. QED  BY <1>3, <2>2, <3>1, EnforcerGrows DEF MembersInv
  <2>. QED  BY <2>1, <2>2
<1>5. /\ issued' \subseteq Workspaces /\ restarts' \in 0 .. MaxRestarts
      /\ w \in Collabs /\ UNCHANGED <<tables, notices>>
      /\ op \in {"signUp", "create", "addMember", "accept", "removeMember", "updateMember",
                 "setLevel", "dropLevel"}
  BY <1>3, Typed DEF Collabs
<1>6. WellFormed([op |-> op, u |-> u, oid |-> w, act |-> act])
  BY <1>3 DEF WellFormed
<1>. QED  BY <1>1, <1>3, <1>4, <1>5, <1>6, HoldStep

(* The requests about one member of a collab.                               *)
LEMMA CollabMemberStep ==
  ASSUME MembersInv, NEW s \in Slots,
         \/ add_collab_member_handler(s)
         \/ update_collab_member_handler(s)
         \/ remove_collab_member_handler(s)
  PROVE  MembersInv' /\ policies \subseteq policies'
<1>. DEFINE P(op, u, o, act) ==
       /\ Hold(s, op, u, o, act)
       /\ UNCHANGED <<tables, notices, issued, restarts>>
       /\ op = "setLevel" => act \in AFAccessLevel /\ update_policy(u, Collab(o), act)
       /\ op = "dropLevel" => act = None /\ remove_policy(u, Collab(o))
<1>1. asked' \in 0 .. MaxRequests
  BY AskType DEF add_collab_member_handler, update_collab_member_handler,
       remove_collab_member_handler
<1>2. \E op \in {"setLevel", "dropLevel"}, u \in Users, o \in Collabs,
         act \in AFAccessLevel \cup {None} : P(op, u, o, act)
  <2>1. CASE add_collab_member_handler(s) \/ update_collab_member_handler(s)
    <3>1. PICK o \in Collabs, u \in users, l \in Levels : SetCollabMember(s, u, o, l)
      BY <2>1 DEF add_collab_member_handler, update_collab_member_handler,
                  create_collab_member, upsert_collab_member
    <3>2. P("setLevel", u, o, l)
      BY <3>1 DEF SetCollabMember, update_access_level_policy
    <3>. QED  BY <3>1, <3>2, Typed
  <2>2. CASE remove_collab_member_handler(s)
    <3>1. PICK o \in Collabs, u \in users : delete_collab_member(s, u, o)
      BY <2>2 DEF remove_collab_member_handler
    <3>2. P("dropLevel", u, o, None)
      BY <3>1 DEF delete_collab_member, remove_access_level
    <3>. QED  BY <3>1, <3>2, Typed
  <2>. QED  BY <2>1, <2>2
<1>3. PICK op \in {"setLevel", "dropLevel"}, u \in Users, o \in Collabs,
         act \in AFAccessLevel \cup {None} : P(op, u, o, act)
  BY <1>2
<1>4. Grows
  <2>1. Collab(o) \in Object /\ "Owner" \in AFRole /\ WorkspaceOf[o] \in Workspaces
    BY ObjectTypes DEF AFRole
  <2>. QED  BY <1>3, <2>1, EnforcerGrows DEF MembersInv
<1>5. /\ issued' \subseteq Workspaces /\ restarts' \in 0 .. MaxRestarts
      /\ UNCHANGED <<tables, notices>>
      /\ op \in {"signUp", "create", "addMember", "accept", "removeMember", "updateMember",
                 "setLevel", "dropLevel"}
  BY <1>3, Typed
<1>6. WellFormed([op |-> op, u |-> u, oid |-> o, act |-> act])
  BY <1>3 DEF WellFormed
<1>. QED  BY <1>1, <1>3, <1>4, <1>5, <1>6, HoldStep

-----------------------------------------------------------------------------
(* What both ways of writing a member's row keep: nobody loses a row.       *)
LEMMA UpsertFacts ==
  ASSUME MembersInv, policies \subseteq policies',
         NEW w \in Workspaces, NEW u \in Users, NEW r \in AFRole,
         upsert_workspace_member_with_txn(w, u, r) \/ upsert_workspace_member(w, u, r)
  PROVE  /\ role' \in [Workspaces -> [Users -> AFRole \cup {None}]]
         /\ workspaceNotices' \in Seq(RoleNotice)
         /\ RolesAdmitted'
         /\ \A v \in Workspaces, x \in Users : role[v][x] # None => role'[v][x] # None
<1>1. CASE UNCHANGED <<role, workspaceNotices>>
  BY <1>1, StillAdmitted, Typed DEF MembersInv, Shapes
<1>2. CASE /\ role' = [role EXCEPT ![w][u] = r]
           /\ workspaceNotices' = Append(workspaceNotices, Notify(u, w, r))
  <2>1. /\ role' \in [Workspaces -> [Users -> AFRole \cup {None}]]
        /\ workspaceNotices' \in Seq(RoleNotice)
        /\ RolesAdmitted'
    BY <1>2, RoleWritten
  <2>2. \A v \in Workspaces, x \in Users : role'[v][x] \in {role[v][x], r}
    BY <1>2, Typed
  <2>. QED  BY <2>1, <2>2
<1>3. UNCHANGED <<role, workspaceNotices>> \/
        /\ role' = [role EXCEPT ![w][u] = r]
        /\ workspaceNotices' = Append(workspaceNotices, Notify(u, w, r))
  BY DEF upsert_workspace_member_with_txn, upsert_workspace_member
<1>. QED  BY <1>1, <1>2, <1>3

(* Rows that are not lost keep the owners members.                          *)
LEMMA OwnersKept ==
  ASSUME MembersInv, UNCHANGED owner,
         \A v \in Workspaces, x \in Users : role[v][x] # None => role'[v][x] # None
  PROVE  OwnerStays'
<1>1. \A w \in Workspaces : owner[w] # None => owner[w] \in Users
  BY Typed
<1>. QED  BY <1>1 DEF MembersInv, OwnerStays

(* update_workspace_member writes the row before the policy.                *)
LEMMA UpdateMemberStep ==
  ASSUME MembersInv, NEW s \in Slots, update_workspace_member_handler(s)
  PROVE  MembersInv' /\ policies \subseteq policies'
<1>1. PICK w \in Workspaces, u \in Users, r \in AFRole : update_workspace_member(s, w, u, r)
  BY Typed DEF update_workspace_member_handler, There
<1>2. asked' \in 0 .. MaxRequests
  BY AskType DEF update_workspace_member_handler
<1>3. UNCHANGED <<users, owner, level, invitations, collabNotices, issued, restarts>> /\ Grows
  BY <1>1, QuietGrows DEF update_workspace_member
<1>4. /\ role' \in [Workspaces -> [Users -> AFRole \cup {None}]]
      /\ workspaceNotices' \in Seq(RoleNotice)
      /\ RolesAdmitted'
      /\ \A v \in Workspaces, x \in Users : role[v][x] # None => role'[v][x] # None
  BY <1>1, <1>3, UpsertFacts DEF update_workspace_member, Grows
<1>. DEFINE q == [op |-> "updateMember", u |-> u, oid |-> w, act |-> r]
<1>5. q \in Request /\ WellFormed(q)
  BY <1>1 DEF Request, WellFormed, Collabs
<1>6. requests' = [requests EXCEPT ![s] = q]
  BY <1>1 DEF update_workspace_member, Hold
<1>. HIDE DEF q
<1>7. requests' \in [Slots -> Request \cup {None}]
  BY <1>5, <1>6, Typed
<1>8. Shapes'
  <2>1. \A t \in Slots : requests'[t] # None => WellFormed(requests'[t])
    BY <1>5, <1>6, Typed DEF MembersInv, Shapes
  <2>2. collabNotices' \in Seq(LevelNotice)
    BY <1>3 DEF MembersInv, Shapes
  <2>. QED  BY <1>4, <2>1, <2>2 DEF Shapes
<1>9. OwnerStays' /\ LevelsAdmitted'
  BY <1>3, <1>4, OwnersKept, StillAdmitted DEF Grows
<1>. QED  BY <1>2, <1>3, <1>4, <1>7, <1>8, <1>9, Typed, Assembled

(* Steps that leave the requests alone keep their shape.                    *)
LEMMA RequestsKept ==
  ASSUME MembersInv, UNCHANGED requests,
         workspaceNotices' \in Seq(RoleNotice), collabNotices' \in Seq(LevelNotice)
  PROVE  Shapes'
  BY DEF MembersInv, Shapes

(* Opening a workspace announces the member again.                          *)
LEMMA OpenStep ==
  ASSUME MembersInv, open_workspace_handler
  PROVE  MembersInv' /\ policies \subseteq policies'
<1>1. PICK w \in Workspaces, u \in Users : open_workspace(u, w)
  BY Typed DEF open_workspace_handler, There
<1>2. asked' \in 0 .. MaxRequests
  BY AskType DEF open_workspace_handler
<1>3. /\ UNCHANGED <<users, owner, level, invitations, requests, collabNotices, issued, restarts>>
      /\ Grows
  BY <1>1, QuietGrows DEF open_workspace
<1>4. /\ role' \in [Workspaces -> [Users -> AFRole \cup {None}]]
      /\ workspaceNotices' \in Seq(RoleNotice)
      /\ RolesAdmitted'
      /\ \A v \in Workspaces, x \in Users : role[v][x] # None => role'[v][x] # None
  <2>1. CASE role[w][u] = None
    <3>1. UNCHANGED <<role, workspaceNotices>>
      BY <1>1, <2>1 DEF open_workspace, update_updated_at_of_workspace, upsert_workspace_member
    <3>. QED  BY <1>3, <3>1, StillAdmitted, Typed DEF MembersInv, Shapes, Grows
  <2>2. CASE role[w][u] # None
    <3>1. role[w][u] \in AFRole
      BY <2>2, Typed
    <3>2. upsert_workspace_member(w, u, role[w][u])
      BY <1>1 DEF open_workspace, update_updated_at_of_workspace
    <3>. QED  BY <1>3, <3>1, <3>2, UpsertFacts DEF Grows
  <2>. QED  BY <2>1, <2>2
<1>5. Shapes' /\ OwnerStays' /\ LevelsAdmitted'
  BY <1>3, <1>4, OwnersKept, StillAdmitted, RequestsKept DEF Grows, MembersInv, Shapes
<1>. QED  BY <1>2, <1>3, <1>4, <1>5, Typed, Assembled

(* Deleting a workspace takes its owner and its members together.           *)
LEMMA DeleteStep ==
  ASSUME MembersInv, delete_workspace_handler
  PROVE  MembersInv' /\ policies \subseteq policies'
<1>1. PICK w \in Workspaces : delete_workspace_for_user(w)
  BY DEF delete_workspace_handler, There
<1>2. asked' \in 0 .. MaxRequests
  BY AskType DEF delete_workspace_handler
<1>3. UNCHANGED <<users, level, requests, collabNotices, issued, restarts>> /\ Grows
  BY <1>1, QuietGrows DEF delete_workspace_for_user
<1>4. /\ owner' = [owner EXCEPT ![w] = None]
      /\ role' = [role EXCEPT ![w] = [u \in Users |-> None]]
      /\ invitations' \subseteq Invitation
  BY <1>1, Typed DEF delete_workspace_for_user, delete_from_workspace
<1>5. /\ owner' \in [Workspaces -> Users \cup {None}]
      /\ role' \in [Workspaces -> [Users -> AFRole \cup {None}]]
      /\ \A u \in Users : role'[w][u] = None
      /\ \A v \in Workspaces : v # w => role'[v] = role[v] /\ owner'[v] = owner[v]
      /\ owner'[w] = None
  BY <1>4, Typed
<1>. DEFINE S == {u \in Users : role[w][u] # None}
            r == [i \in 1 .. Cardinality(S) |-> Notify(Listed(S)[i], w, None)]
<1>6. workspaceNotices' = workspaceNotices \o r
  BY <1>1 DEF delete_workspace_for_user, delete_from_workspace, Each
<1>7. r \in Seq(RoleNotice)
  <2>1. S \subseteq Users /\ IsFiniteSet(S)
    BY FS_Subset
  <2>. HIDE DEF S
  <2>2. Cardinality(S) \in Nat /\ \A i \in 1 .. Cardinality(S) : Listed(S)[i] \in Users
    BY <2>1, ListedFacts
  <2>3. \A i \in 1 .. Cardinality(S) : Notify(Listed(S)[i], w, None) \in RoleNotice
    BY <2>2 DEF Notify, RoleNotice
  <2>. QED  BY <2>2, <2>3
<1>. HIDE DEF r
<1>8. /\ workspaceNotices' \in Seq(RoleNotice)
      /\ \A u, oid, act : Announced(workspaceNotices, u, oid, act)
                          => Announced(workspaceNotices', u, oid, act)
  BY <1>6, <1>7, AnnouncingAll DEF MembersInv, Shapes
<1>9. RolesAdmitted'
  BY <1>3, <1>5, <1>8 DEF MembersInv, RolesAdmitted, Grows
<1>10. OwnerStays'
  BY <1>5 DEF MembersInv, OwnerStays
<1>11. LevelsAdmitted' /\ Shapes'
  BY <1>3, <1>8, StillAdmitted, RequestsKept DEF MembersInv, Shapes, Grows
<1>. QED  BY <1>2, <1>3, <1>4, <1>5, <1>9, <1>10, <1>11, Typed, Assembled

(* An invitation is a row of its own.                                       *)
LEMMA InviteStep ==
  ASSUME MembersInv, post_workspace_invite_handler
  PROVE  MembersInv' /\ policies \subseteq policies'
<1>1. PICK w \in Workspaces, u \in Users, r \in AFRole : invite_workspace_members(w, u, r)
  BY DEF post_workspace_invite_handler, There
<1>2. asked' \in 0 .. MaxRequests
  BY AskType DEF post_workspace_invite_handler
<1>3. /\ UNCHANGED <<users, owner, role, level, requests, workspaceNotices, collabNotices,
                      issued, restarts>>
      /\ Grows
  BY <1>1, QuietGrows DEF invite_workspace_members, notices
<1>4. [w |-> w, u |-> u, role |-> r, accepted |-> FALSE] \in Invitation
  BY <1>1 DEF Invitation
<1>5. invitations' \subseteq Invitation
  BY <1>1, <1>4, Typed DEF invite_workspace_members, insert_workspace_invitation
<1>6. Shapes' /\ RolesAdmitted' /\ LevelsAdmitted' /\ OwnerStays'
  BY <1>3, StillAdmitted, RequestsKept, OwnersKept DEF MembersInv, Shapes, Grows
<1>. QED  BY <1>2, <1>3, <1>5, <1>6, Typed, Assembled

-----------------------------------------------------------------------------
(* Steps that release a slot keep the shape of the requests.                *)
LEMMA Released ==
  ASSUME MembersInv, NEW s \in Slots, Release(s),
         workspaceNotices' \in Seq(RoleNotice), collabNotices' \in Seq(LevelNotice)
  PROVE  Shapes' /\ requests' \in [Slots -> Request \cup {None}]
  BY Typed DEF MembersInv, Shapes, Release

(* A request that fails.                                                    *)
LEMMA AbortStep ==
  ASSUME MembersInv, NEW s \in Slots, Abort(s)
  PROVE  MembersInv' /\ policies \subseteq policies'
<1>1. /\ UNCHANGED <<users, owner, role, level, invitations, workspaceNotices, collabNotices,
                      issued, asked, restarts>>
      /\ Grows /\ Release(s)
  BY QuietGrows DEF Abort, tables, notices, counters
<1>2. Shapes' /\ requests' \in [Slots -> Request \cup {None}]
  BY <1>1, Released DEF MembersInv, Shapes
<1>3. RolesAdmitted' /\ LevelsAdmitted' /\ OwnerStays'
  BY <1>1, StillAdmitted, OwnersKept DEF Grows
<1>. QED  BY <1>1, <1>2, <1>3, Typed, Assembled

(* The commit of a new workspace.                                           *)
LEMMA CommitWorkspaceStep ==
  ASSUME MembersInv, NEW s \in Slots, NEW u \in Users, NEW w \in Workspaces,
         CommitWorkspace(s, u, w), Release(s), UNCHANGED counters
  PROVE  MembersInv' /\ policies \subseteq policies'
<1>1. /\ UNCHANGED <<invitations, issued, asked, restarts>> /\ Grows
  BY QuietGrows DEF CommitWorkspace, counters
<1>2. users' \subseteq Users /\ insert_user_workspace(u, w)
  BY Typed DEF CommitWorkspace, create_user
<1>3. "Owner" \in AFRole /\ "FullAccess" \in AFAccessLevel
  BY DEF AFRole, AFAccessLevel
<1>4. /\ role' \in [Workspaces -> [Users -> AFRole \cup {None}]]
      /\ workspaceNotices' \in Seq(RoleNotice)
      /\ RolesAdmitted'
      /\ \A v \in Workspaces, x \in Users : role[v][x] # None => role'[v][x] # None
  BY <1>1, <1>2, <1>3, UpsertFacts DEF insert_user_workspace, Grows
<1>5. owner' \in [Workspaces -> Users \cup {None}] /\ OwnerStays'
  <2>1. owner' = [owner EXCEPT ![w] = u]
    BY <1>2 DEF insert_user_workspace
  <2>2. role'[w][u] # None
    BY <1>2, <1>3, Typed DEF insert_user_workspace, upsert_workspace_member_with_txn
  <2>3. ASSUME NEW v \in Workspaces, owner'[v] # None
        PROVE  role'[v][owner'[v]] # None
    <3>1. CASE v = w
      BY <2>1, <2>2, <3>1, Typed
    <3>2. CASE v # w
      <4>1. owner'[v] = owner[v] /\ owner[v] \in Users
        BY <2>1, <2>3, <3>2, Typed
      <4>. QED  BY <1>4, <2>3, <4>1 DEF MembersInv, OwnerStays
    <3>. QED  BY <3>1, <3>2
  <2>. QED  BY <2>1, <2>3, Typed DEF OwnerStays
<1>. DEFINE S == Templates(w)
            r == [i \in 1 .. Cardinality(S) |-> Notify(u, Listed(S)[i], "FullAccess")]
<1>6. /\ level' = [o \in Collabs |->
           IF o \in S THEN [level[o] EXCEPT ![u] = "FullAccess"] ELSE level[o]]
      /\ collabNotices' = collabNotices \o r
  BY DEF CommitWorkspace, Each
<1>7. /\ S \subseteq Collabs /\ Cardinality(S) \in Nat
      /\ \A i \in 1 .. Cardinality(S) : Listed(S)[i] \in S
      /\ \A o \in S : \E i \in 1 .. Cardinality(S) : Listed(S)[i] = o
  <2>1. S \subseteq Collabs
    BY DEF Templates
  <2>2. IsFiniteSet(S)
    BY <2>1, FS_Subset
  <2>. QED  BY <2>1, <2>2, ListedFacts
<1>. HIDE DEF S
<1>8. r \in Seq(LevelNotice) /\ \A o \in S : Announced(r, u, o, "FullAccess")
  <2>1. \A i \in 1 .. Cardinality(S) : Notify(u, Listed(S)[i], "FullAccess") \in LevelNotice
    BY <1>3, <1>7 DEF Notify, LevelNotice
  <2>2. r \in Seq(LevelNotice)
    BY <1>7, <2>1
  <2>3. DOMAIN r = 1 .. Cardinality(S)
    OBVIOUS
  <2>4. \A i \in DOMAIN r : r[i].u = u /\ r[i].oid = Listed(S)[i] /\ r[i].act = "FullAccess"
    BY DEF Notify
  <2>. HIDE DEF r
  <2>5. \A o \in S : Announced(r, u, o, "FullAccess")
    BY <1>7, <2>3, <2>4 DEF Announced
  <2>. QED  BY <2>2, <2>5
<1>. HIDE DEF r
<1>9. /\ collabNotices' \in Seq(LevelNotice)
      /\ \A x, oid, act : Announced(collabNotices, x, oid, act) \/ Announced(r, x, oid, act)
                          => Announced(collabNotices', x, oid, act)
  BY <1>6, <1>8, AnnouncingAll DEF MembersInv, Shapes
<1>10. level' \in [Collabs -> [Users -> AFAccessLevel \cup {None}]]
  BY <1>3, <1>6, Typed
<1>11. \A o \in Collabs, x \in Users :
         level'[o][x] = IF o \in S /\ x = u THEN "FullAccess" ELSE level[o][x]
  BY <1>6, Typed
<1>12. LevelsAdmitted'
  <2>1. ASSUME NEW o \in Collabs, NEW x \in Users, level'[o][x] # None
        PROVE  \/ PolicyOf(x, Collab(o), level'[o][x]) \in policies'
               \/ Announced(collabNotices', x, o, level'[o][x])
    <3>1. CASE o \in S /\ x = u
      BY <1>8, <1>9, <1>11, <3>1
    <3>2. CASE ~(o \in S /\ x = u)
      <4>1. level'[o][x] = level[o][x]
        BY <1>11, <3>2
      <4>. QED  BY <1>1, <1>9, <2>1, <4>1 DEF MembersInv, LevelsAdmitted, Grows
    <3>. QED  BY <3>1, <3>2
  <2>. QED  BY <2>1 DEF LevelsAdmitted
<1>13. Shapes' /\ requests' \in [Slots -> Request \cup {None}]
  BY <1>4, <1>9, Released
<1>. QED  BY <1>1, <1>2, <1>4, <1>5, <1>10, <1>12, <1>13, Typed, Assembled

(* The commit of a new member: a row in both tables.                        *)
LEMMA CommitMemberStep ==
  ASSUME MembersInv, NEW s \in Slots, NEW u \in Users, NEW w \in Workspaces, NEW r \in AFRole,
         CommitMember(s, u, w, r), Release(s), UNCHANGED counters
  PROVE  MembersInv' /\ policies \subseteq policies'
<1>1. UNCHANGED <<users, owner, invitations, issued, asked, restarts>> /\ Grows
  BY QuietGrows DEF CommitMember, counters
<1>2. /\ role' \in [Workspaces -> [Users -> AFRole \cup {None}]]
      /\ workspaceNotices' \in Seq(RoleNotice)
      /\ RolesAdmitted'
      /\ \A v \in Workspaces, x \in Users : role[v][x] # None => role'[v][x] # None
  BY <1>1, UpsertFacts DEF CommitMember, Grows
<1>3. LevelOf(r) \in AFAccessLevel /\ w \in Collabs
  BY LevelOfType DEF Collabs
<1>4. /\ level' = [level EXCEPT ![w][u] = LevelOf(r)]
      /\ collabNotices' = Append(collabNotices, Notify(u, w, LevelOf(r)))
  BY DEF CommitMember, upsert_collab_member_with_txn
<1>5. /\ level' \in [Collabs -> [Users -> AFAccessLevel \cup {None}]]
      /\ collabNotices' \in Seq(LevelNotice)
      /\ LevelsAdmitted'
  BY <1>1, <1>3, <1>4, LevelWritten DEF Grows
<1>6. Shapes' /\ requests' \in [Slots -> Request \cup {None}] /\ OwnerStays'
  BY <1>1, <1>2, <1>5, Released, OwnersKept
<1>. QED  BY <1>1, <1>2, <1>5, <1>6, Typed, Assembled

(* The commit of an accepted invitation: the trigger makes the member.      *)
LEMMA CommitAcceptStep ==
  ASSUME MembersInv, NEW s \in Slots, NEW u \in Users, NEW w \in Workspaces, NEW r \in AFRole,
         CommitAccept(s, u, w, r), Release(s), UNCHANGED counters
  PROVE  MembersInv' /\ policies \subseteq policies'
<1>1. UNCHANGED <<users, owner, level, collabNotices, issued, asked, restarts>> /\ Grows
  BY QuietGrows DEF CommitAccept, counters
<1>2. PICK i \in invitations : update_workspace_invitation_set_status_accepted(i)
  BY DEF CommitAccept
<1>3. i \in Invitation
  BY Typed
<1>4. [i EXCEPT !.accepted = TRUE] \in Invitation
  BY <1>3 DEF Invitation
<1>5. invitations' \subseteq Invitation
  BY <1>2, <1>4, Typed DEF update_workspace_invitation_set_status_accepted
<1>6. i.w \in Workspaces /\ i.u \in Users /\ i.role \in AFRole
  BY <1>3 DEF Invitation
<1>7. /\ role' \in [Workspaces -> [Users -> AFRole \cup {None}]]
      /\ workspaceNotices' \in Seq(RoleNotice)
      /\ RolesAdmitted'
      /\ \A v \in Workspaces, x \in Users : role[v][x] # None => role'[v][x] # None
  <2>1. CASE UNCHANGED <<role, workspaceNotices>>
    BY <1>1, <2>1, StillAdmitted, Typed DEF MembersInv, Shapes, Grows
  <2>2. CASE upsert_workspace_member_with_txn(i.w, i.u, i.role)
    BY <1>1, <1>6, <2>2, UpsertFacts DEF Grows
  <2>. QED  BY <1>2, <2>1, <2>2 DEF update_workspace_invitation_set_status_accepted
<1>8. LevelsAdmitted'
  BY <1>1, StillAdmitted DEF Grows
<1>9. Shapes' /\ requests' \in [Slots -> Request \cup {None}] /\ OwnerStays'
  BY <1>1, <1>7, Released, OwnersKept DEF MembersInv, Shapes
<1>. QED  BY <1>1, <1>5, <1>7, <1>8, <1>9, Typed, Assembled

(* The commit of a removal spares the owner.                                *)
LEMMA CommitRemoveStep ==
  ASSUME MembersInv, NEW s \in Slots, NEW u \in Users, NEW w \in Workspaces,
         CommitRemove(s, u, w), Release(s), UNCHANGED counters
  PROVE  MembersInv' /\ policies \subseteq policies'
<1>1. UNCHANGED <<users, owner, level, invitations, collabNotices, issued, asked, restarts>> /\ Grows
  BY QuietGrows DEF CommitRemove, counters
<1>2. /\ role' \in [Workspaces -> [Users -> AFRole \cup {None}]]
      /\ workspaceNotices' \in Seq(RoleNotice)
      /\ RolesAdmitted' /\ OwnerStays'
  <2>1. CASE UNCHANGED <<role, workspaceNotices>>
    BY <1>1, <2>1, StillAdmitted, OwnersKept, Typed DEF MembersInv, Shapes, Grows
  <2>2. CASE ~is_owner(w, u) /\ role[w][u] = None
    <3>1. UNCHANGED <<role, workspaceNotices>>
      BY <2>2, Typed DEF CommitRemove, delete_workspace_members
    <3>. QED  BY <2>1, <3>1
  <2>3. CASE ~is_owner(w, u) /\ role[w][u] # None
    <3>1. /\ role' = [role EXCEPT ![w][u] = None]
          /\ workspaceNotices' = Append(workspaceNotices, Notify(u, w, None))
      BY <2>3 DEF CommitRemove, delete_workspace_members
    <3>2. /\ role' \in [Workspaces -> [Users -> AFRole \cup {None}]]
          /\ workspaceNotices' \in Seq(RoleNotice)
          /\ RolesAdmitted'
      BY <1>1, <3>1, RoleWritten DEF Grows
    <3>3. ASSUME NEW v \in Workspaces, owner'[v] # None
          PROVE  role'[v][owner'[v]] # None
      <4>1. owner'[v] = owner[v] /\ owner[v] \in Users /\ role[v][owner[v]] # None
        BY <1>1, <3>3, Typed DEF MembersInv, OwnerStays
      <4>2. ~(v = w /\ owner[v] = u)
        BY <2>3 DEF is_owner
      <4>3. role'[v][owner[v]] = role[v][owner[v]]
        BY <3>1, <4>1, <4>2, Typed
      <4>. QED  BY <4>1, <4>3
    <3>. QED  BY <3>2, <3>3 DEF OwnerStays
  <2>4. is_owner(w, u) => UNCHANGED <<role, workspaceNotices>>
    BY DEF CommitRemove, delete_workspace_members
  <2>. QED  BY <2>1, <2>2, <2>3, <2>4
<1>3. LevelsAdmitted'
  BY <1>1, StillAdmitted DEF Grows
<1>4. Shapes' /\ requests' \in [Slots -> Request \cup {None}]
  BY <1>1, <1>2, Released DEF MembersInv, Shapes
<1>. QED  BY <1>1, <1>2, <1>3, <1>4, Typed, Assembled

(* The policy of an update of a member comes after its row.                 *)
LEMMA FinishUpdateStep ==
  ASSUME MembersInv, NEW s \in Slots, NEW u \in Users, NEW w \in Workspaces, NEW r \in AFRole,
         FinishUpdate(s, u, w, r), Release(s), UNCHANGED counters
  PROVE  MembersInv' /\ policies \subseteq policies'
<1>1. /\ UNCHANGED <<users, owner, role, level, invitations, workspaceNotices, collabNotices,
                      issued, asked, restarts>>
      /\ insert_role(u, w, r)
  BY DEF FinishUpdate, counters, tables, notices
<1>2. Grows
  BY <1>1, EnforcerGrows, ObjectTypes DEF MembersInv
<1>3. Shapes' /\ requests' \in [Slots -> Request \cup {None}]
  BY <1>1, Released DEF MembersInv, Shapes
<1>4. RolesAdmitted' /\ LevelsAdmitted' /\ OwnerStays'
  BY <1>1, <1>2, StillAdmitted, OwnersKept DEF Grows
<1>. QED  BY <1>1, <1>2, <1>3, <1>4, Typed, Assembled

(* The commit of a collab member's row.                                     *)
LEMMA CommitLevelStep ==
  ASSUME MembersInv, NEW s \in Slots, NEW u \in Users, NEW o \in Collabs, NEW l,
         requests[s].op = "setLevel" => l \in AFAccessLevel,
         CommitLevel(s, u, o, l), Release(s), UNCHANGED counters
  PROVE  MembersInv' /\ policies \subseteq policies'
<1>1. UNCHANGED <<users, owner, role, invitations, workspaceNotices, issued, asked, restarts>> /\ Grows
  BY QuietGrows DEF CommitLevel, counters
<1>2. /\ level' \in [Collabs -> [Users -> AFAccessLevel \cup {None}]]
      /\ collabNotices' \in Seq(LevelNotice)
      /\ LevelsAdmitted'
  <2>1. CASE requests[s].op = "setLevel" /\ upsert_collab_member_with_txn(o, u, l)
    <3>1. /\ level' = [level EXCEPT ![o][u] = l]
          /\ collabNotices' = Append(collabNotices, Notify(u, o, l))
      BY <2>1 DEF upsert_collab_member_with_txn
    <3>. QED  BY <1>1, <2>1, <3>1, LevelWritten DEF Grows
  <2>2. CASE DeleteCollabMember(o, u)
    <3>1. CASE level[o][u] = None
      <4>1. UNCHANGED <<level, collabNotices>>
        BY <2>2, <3>1, Typed DEF DeleteCollabMember
      <4>. QED  BY <1>1, <4>1, StillAdmitted, Typed DEF MembersInv, Shapes, Grows
    <3>2. CASE level[o][u] # None
      <4>1. /\ level' = [level EXCEPT ![o][u] = None]
            /\ collabNotices' = Append(collabNotices, Notify(u, o, None))
        BY <2>2, <3>2 DEF DeleteCollabMember
      <4>. QED  BY <1>1, <4>1, LevelWritten DEF Grows
    <3>. QED  BY <3>1, <3>2
  <2>. QED  BY <2>1, <2>2 DEF CommitLevel
<1>3. RolesAdmitted' /\ OwnerStays'
  BY <1>1, StillAdmitted, OwnersKept DEF Grows
<1>4. Shapes' /\ requests' \in [Slots -> Request \cup {None}]
  BY <1>1, <1>2, Released DEF MembersInv, Shapes
<1>. QED  BY <1>1, <1>2, <1>3, <1>4, Typed, Assembled

(* The second step of a request, whatever it was.                           *)
LEMMA FinishStep ==
  ASSUME MembersInv, NEW s \in Slots, Finish(s)
  PROVE  MembersInv' /\ policies \subseteq policies'
<1>. DEFINE q == requests[s]
<1>1. q \in Request /\ WellFormed(q)
  BY Typed DEF Finish, MembersInv, Shapes
<1>2. q.u \in Users /\ q.oid \in Collabs
  BY <1>1 DEF Request
<1>3. Release(s) /\ UNCHANGED counters
  BY DEF Finish
<1>4. CASE CommitWorkspace(s, q.u, q.oid)
  <2>1. q.oid \in Workspaces
    BY <1>1, <1>4 DEF CommitWorkspace, WellFormed
  <2>. QED  BY <1>2, <1>3, <1>4, <2>1, CommitWorkspaceStep
<1>5. CASE CommitMember(s, q.u, q.oid, q.act)
  <2>1. q.oid \in Workspaces /\ q.act \in AFRole
    BY <1>1, <1>5 DEF CommitMember, WellFormed
  <2>. QED  BY <1>2, <1>3, <1>5, <2>1, CommitMemberStep
<1>6. CASE CommitAccept(s, q.u, q.oid, q.act)
  <2>1. q.oid \in Workspaces /\ q.act \in AFRole
    BY <1>1, <1>6 DEF CommitAccept, WellFormed
  <2>. QED  BY <1>2, <1>3, <1>6, <2>1, CommitAcceptStep
<1>7. CASE CommitRemove(s, q.u, q.oid)
  <2>1. q.oid \in Workspaces
    BY <1>1, <1>7 DEF CommitRemove, WellFormed
  <2>. QED  BY <1>2, <1>3, <1>7, <2>1, CommitRemoveStep
<1>8. CASE FinishUpdate(s, q.u, q.oid, q.act)
  <2>1. q.oid \in Workspaces /\ q.act \in AFRole
    BY <1>1, <1>8 DEF FinishUpdate, WellFormed
  <2>. QED  BY <1>2, <1>3, <1>8, <2>1, FinishUpdateStep
<1>9. CASE CommitLevel(s, q.u, q.oid, q.act)
  <2>1. q.op = "setLevel" => q.act \in AFAccessLevel
    BY <1>1 DEF WellFormed
  <2>. QED  BY <1>2, <1>3, <1>9, <2>1, CommitLevelStep
<1>. QED  BY <1>4, <1>5, <1>6, <1>7, <1>8, <1>9 DEF Finish

-----------------------------------------------------------------------------
(* A notice that is heard about a workspace has brought its policy.         *)
LEMMA ListenWorkspaceStep ==
  ASSUME MembersInv, ListenWorkspace
  PROVE  MembersInv' /\ policies \subseteq policies'
<1>. DEFINE n == Head(workspaceNotices)
<1>1. /\ workspaceNotices \in Seq(RoleNotice) /\ workspaceNotices # <<>>
      /\ workspaceNotices' = Tail(workspaceNotices)
  BY DEF MembersInv, Shapes, ListenWorkspace
<1>2. n \in RoleNotice /\ workspaceNotices' \in Seq(RoleNotice)
  BY <1>1
<1>3. n.u \in Users /\ n.oid \in Workspaces /\ n.act \in AFRole \cup {None}
  BY <1>2 DEF RoleNotice
<1>4. /\ n.act = None => remove_policy(n.u, Workspace(n.oid))
      /\ n.act # None => update_policy(n.u, Workspace(n.oid), n.act)
      /\ UNCHANGED <<users, owner, role, level, invitations, requests, collabNotices, issued,
                      asked, restarts>>
  BY DEF ListenWorkspace, tables, counters
<1>. HIDE DEF n
<1>5. Grows
  <2>1. Workspace(n.oid) \in Object /\ "Owner" \in AFRole
    BY <1>3, ObjectTypes DEF AFRole
  <2>. QED  BY <1>3, <1>4, <2>1, EnforcerGrows DEF MembersInv
<1>6. n.act # None => PolicyOf(n.u, Workspace(n.oid), n.act) \in policies'
  <2>1. n.act # None => validate_obj_action(Workspace(n.oid), n.act)
    BY <1>3 DEF validate_obj_action, Workspace
  <2>. QED  BY <1>3, <1>4, <2>1, UpdatedFacts, ObjectTypes, Typed DEF update_policy
<1>7. ASSUME NEW w \in Workspaces, NEW u \in Users, role'[w][u] # None
      PROVE  \/ PolicyOf(u, Workspace(w), role'[w][u]) \in policies'
             \/ Announced(workspaceNotices', u, w, role'[w][u])
  <2>1. role'[w][u] = role[w][u]
    BY <1>4
  <2>2. CASE PolicyOf(u, Workspace(w), role[w][u]) \in policies
    BY <1>5, <2>1, <2>2 DEF Grows
  <2>3. CASE Announced(workspaceNotices, u, w, role[w][u])
    <3>1. \/ Announced(Tail(workspaceNotices), u, w, role[w][u])
          \/ n.u = u /\ n.oid = w /\ n.act = role[w][u]
      BY <1>1, <2>3, Heard DEF n
    <3>. QED  BY <1>1, <1>6, <1>7, <2>1, <3>1
  <2>. QED  BY <1>7, <2>1, <2>2, <2>3 DEF MembersInv, RolesAdmitted
<1>8. RolesAdmitted'
  BY <1>7 DEF RolesAdmitted
<1>9. Shapes' /\ LevelsAdmitted' /\ OwnerStays'
  BY <1>2, <1>4, <1>5, StillAdmitted, RequestsKept, OwnersKept DEF MembersInv, Shapes, Grows
<1>. QED  BY <1>4, <1>5, <1>8, <1>9, Typed, Assembled

(* A notice that is heard about a collab has brought its policy.            *)
LEMMA ListenCollabStep ==
  ASSUME MembersInv, ListenCollab
  PROVE  MembersInv' /\ policies \subseteq policies'
<1>. DEFINE n == Head(collabNotices)
<1>1. /\ collabNotices \in Seq(LevelNotice) /\ collabNotices # <<>>
      /\ collabNotices' = Tail(collabNotices)
  BY DEF MembersInv, Shapes, ListenCollab
<1>2. n \in LevelNotice /\ collabNotices' \in Seq(LevelNotice)
  BY <1>1
<1>3. n.u \in Users /\ n.oid \in Collabs /\ n.act \in AFAccessLevel \cup {None}
  BY <1>2 DEF LevelNotice
<1>4. /\ n.act = None => remove_policy(n.u, Collab(n.oid))
      /\ n.act # None => update_policy(n.u, Collab(n.oid), n.act)
      /\ UNCHANGED <<users, owner, role, level, invitations, requests, workspaceNotices, issued,
                      asked, restarts>>
  BY DEF ListenCollab, tables, counters
<1>. HIDE DEF n
<1>5. Grows
  <2>1. Collab(n.oid) \in Object /\ "Owner" \in AFRole /\ WorkspaceOf[n.oid] \in Workspaces
    BY <1>3, ObjectTypes DEF AFRole
  <2>. QED  BY <1>3, <1>4, <2>1, EnforcerGrows DEF MembersInv
<1>6. n.act # None => PolicyOf(n.u, Collab(n.oid), n.act) \in policies'
  <2>1. n.act # None => validate_obj_action(Collab(n.oid), n.act)
    BY <1>3 DEF validate_obj_action, Collab
  <2>. QED  BY <1>3, <1>4, <2>1, UpdatedFacts, ObjectTypes, Typed DEF update_policy
<1>7. ASSUME NEW o \in Collabs, NEW u \in Users, level'[o][u] # None
      PROVE  \/ PolicyOf(u, Collab(o), level'[o][u]) \in policies'
             \/ Announced(collabNotices', u, o, level'[o][u])
  <2>1. level'[o][u] = level[o][u]
    BY <1>4
  <2>2. CASE PolicyOf(u, Collab(o), level[o][u]) \in policies
    BY <1>5, <2>1, <2>2 DEF Grows
  <2>3. CASE Announced(collabNotices, u, o, level[o][u])
    <3>1. \/ Announced(Tail(collabNotices), u, o, level[o][u])
          \/ n.u = u /\ n.oid = o /\ n.act = level[o][u]
      BY <1>1, <2>3, Heard DEF n
    <3>. QED  BY <1>1, <1>6, <1>7, <2>1, <3>1
  <2>. QED  BY <1>7, <2>1, <2>2, <2>3 DEF MembersInv, LevelsAdmitted
<1>8. LevelsAdmitted'
  BY <1>7 DEF LevelsAdmitted
<1>9. Shapes' /\ RolesAdmitted' /\ OwnerStays'
  BY <1>2, <1>4, <1>5, StillAdmitted, RequestsKept, OwnersKept DEF MembersInv, Shapes, Grows
<1>. QED  BY <1>4, <1>5, <1>8, <1>9, Typed, Assembled

-----------------------------------------------------------------------------
(* The rows that are loaded are policies, and all of them are loaded.       *)
LEMMA LoadedFacts ==
  ASSUME role \in [Workspaces -> [Users -> AFRole \cup {None}]],
         level \in [Collabs -> [Users -> AFAccessLevel \cup {None}]]
  PROVE  /\ WorkspacePolicies \cup CollabPolicies \subseteq Policy
         /\ \A w \in Workspaces, u \in Users : role[w][u] # None =>
              PolicyOf(u, Workspace(w), role[w][u]) \in WorkspacePolicies
         /\ \A o \in Collabs, u \in Users : level[o][u] # None =>
              PolicyOf(u, Collab(o), level[o][u]) \in CollabPolicies
<1>1. WorkspacePolicies \subseteq Policy
  <2>1. ASSUME NEW x \in select_workspace_member_perm_stream
        PROVE  PolicyOf(x[1], Workspace(x[2]), role[x[2]][x[1]]) \in Policy
    <3>1. x[1] \in Users /\ x[2] \in Workspaces /\ role[x[2]][x[1]] \in AFRole
      BY DEF select_workspace_member_perm_stream
    <3>2. Workspace(x[2]) \in Object
      BY <3>1, ObjectTypes
    <3>. QED  BY <3>1, <3>2 DEF Policy, PolicyOf
  <2>. QED  BY <2>1 DEF WorkspacePolicies
<1>2. CollabPolicies \subseteq Policy
  <2>1. ASSUME NEW x \in select_collab_member_access_level
        PROVE  PolicyOf(x[1], Collab(x[2]), level[x[2]][x[1]]) \in Policy
    <3>1. x[1] \in Users /\ x[2] \in Collabs /\ level[x[2]][x[1]] \in AFAccessLevel
      BY DEF select_collab_member_access_level
    <3>2. Collab(x[2]) \in Object
      BY <3>1, ObjectTypes
    <3>. QED  BY <3>1, <3>2 DEF Policy, PolicyOf
  <2>. QED  BY <2>1 DEF CollabPolicies
<1>3. ASSUME NEW w \in Workspaces, NEW u \in Users, role[w][u] # None
      PROVE  PolicyOf(u, Workspace(w), role[w][u]) \in WorkspacePolicies
  <2>1. <<u, w>> \in select_workspace_member_perm_stream
    BY <1>3 DEF select_workspace_member_perm_stream
  <2>. QED  BY <2>1 DEF WorkspacePolicies
<1>4. ASSUME NEW o \in Collabs, NEW u \in Users, level[o][u] # None
      PROVE  PolicyOf(u, Collab(o), level[o][u]) \in CollabPolicies
  <2>1. <<u, o>> \in select_collab_member_access_level
    BY <1>4 DEF select_collab_member_access_level
  <2>. QED  BY <2>1 DEF CollabPolicies
<1>. QED  BY <1>1, <1>2, <1>3, <1>4

(* A server that starts has loaded every row and forgotten the rest.        *)
LEMMA RestartStep ==
  ASSUME MembersInv, Restart
  PROVE  MembersInv'
<1>1. /\ UNCHANGED <<users, owner, role, level, invitations, issued, asked>>
      /\ policies' = WorkspacePolicies \cup CollabPolicies
      /\ changes' = <<>> /\ checks' = {}
      /\ action_by_oid' = [k \in Watched |-> None]
      /\ requests' = [s \in Slots |-> None]
      /\ workspaceNotices' = <<>> /\ collabNotices' = <<>>
      /\ restarts' \in 0 .. MaxRestarts
  BY Typed DEF Restart, tables
<1>2. /\ <<>> \in Seq(Watched) /\ <<>> \in Seq(Notice)
      /\ <<>> \in Seq(RoleNotice) /\ <<>> \in Seq(LevelNotice)
  OBVIOUS
<1>3. policies' \subseteq Policy
  BY <1>1, LoadedFacts, Typed
<1>4. TypeOK'
  <2>1. AccessTypeOK'
    BY <1>1, <1>2, <1>3 DEF AccessTypeOK
  <2>. QED  BY <1>1, <1>2, <2>1, Typed DEF TypeOK
<1>5. Shapes'
  BY <1>1, <1>2 DEF Shapes
<1>6. RolesAdmitted' /\ LevelsAdmitted'
  BY <1>1, LoadedFacts, Typed DEF RolesAdmitted, LevelsAdmitted
<1>7. OwnerStays'
  BY <1>1, OwnersKept
<1>8. ChecksPermitted' /\ CacheIsPermitted'
  BY <1>1 DEF ChecksPermitted, CacheIsPermitted
<1>. QED  BY <1>4, <1>5, <1>6, <1>7, <1>8 DEF MembersInv

(* So it is in the first state.                                             *)
LEMMA InitHolds == Init => MembersInv
<1>. SUFFICES ASSUME Init PROVE MembersInv
  OBVIOUS
<1>1. /\ role \in [Workspaces -> [Users -> AFRole \cup {None}]]
      /\ level \in [Collabs -> [Users -> AFAccessLevel \cup {None}]]
      /\ \A w \in Workspaces : owner[w] # None => role[w][owner[w]] = "Owner"
  BY DEF Init, AFRole, AFAccessLevel
<1>2. /\ <<>> \in Seq(Watched) /\ <<>> \in Seq(Notice)
      /\ <<>> \in Seq(RoleNotice) /\ <<>> \in Seq(LevelNotice)
  OBVIOUS
<1>3. policies = WorkspacePolicies \cup CollabPolicies
  BY DEF Init, AccessInit
<1>4. AccessTypeOK
  BY <1>1, <1>2, <1>3, LoadedFacts DEF Init, AccessInit, AccessTypeOK
<1>5. TypeOK
  <2>1. /\ users \subseteq Users /\ owner \in [Workspaces -> Users \cup {None}]
        /\ invitations \subseteq Invitation /\ issued \subseteq Workspaces
        /\ requests \in [Slots -> Request \cup {None}]
        /\ asked \in 0 .. MaxRequests /\ restarts \in 0 .. MaxRestarts
    BY DEF Init
  <2>2. workspaceNotices \in Seq(Notice) /\ collabNotices \in Seq(Notice)
    BY <1>2 DEF Init
  <2>. QED  BY <1>1, <1>4, <2>1, <2>2 DEF TypeOK
<1>6. Shapes
  BY <1>2 DEF Init, Shapes
<1>7. RolesAdmitted /\ LevelsAdmitted
  BY <1>1, <1>3, LoadedFacts DEF RolesAdmitted, LevelsAdmitted
<1>8. OwnerStays
  BY <1>1 DEF OwnerStays, AFRole
<1>9. ChecksPermitted /\ CacheIsPermitted
  BY DEF Init, AccessInit, ChecksPermitted, CacheIsPermitted
<1>. QED  BY <1>5, <1>6, <1>7, <1>8, <1>9 DEF MembersInv

(* A check that starts has read the policies; one that ends, and the task   *)
(* that forgets, change the cache.                                          *)
LEMMA AccessStep ==
  ASSUME MembersInv, AccessNext, UNCHANGED <<tables, requests, notices, counters>>
  PROVE  MembersInv' /\ policies \subseteq policies'
<1>1. UNCHANGED <<users, owner, role, level, invitations, requests, workspaceNotices,
                  collabNotices, issued, asked, restarts>>
  BY DEF tables, notices, counters
<1>2. AccessTypeOK
  BY DEF MembersInv, TypeOK
<1>3. policies' = policies /\ (AccessTypeOK /\ ChecksPermitted /\ CacheIsPermitted)'
  <2>1. ASSUME NEW k \in Watched, NEW action \in {"Read", "Write"},
               StartCheck(k[1], k[2], action)
        PROVE  policies' = policies /\ (AccessTypeOK /\ ChecksPermitted /\ CacheIsPermitted)'
    <3>. DEFINE c == [key |-> <<k[1], k[2]>>, action |-> action]
    <3>1. k = <<k[1], k[2]>>
      OBVIOUS
    <3>2. c \in [key : Watched, action : {"Read", "Write"}]
      BY <3>1
    <3>3. checks' = checks \cup {c} /\ UNCHANGED <<policies, changes, action_by_oid>>
      BY <2>1 DEF StartCheck
    <3>4. AccessTypeOK'
      BY <1>2, <3>2, <3>3 DEF AccessTypeOK
    <3>5. enforce_action(c.key[1], c.key[2], c.action)
      BY <2>1 DEF StartCheck
    <3>. HIDE DEF c
    <3>6. \A u, o, a : enforce_action(u, o, a) => enforce_action(u, o, a)'
      BY <3>3 DEF enforce_action, enforce_policy
    <3>7. ChecksPermitted' /\ CacheIsPermitted'
      BY <3>3, <3>5, <3>6 DEF MembersInv, ChecksPermitted, CacheIsPermitted
    <3>. QED  BY <3>3, <3>4, <3>7
  <2>2. ASSUME NEW c \in checks, FinishCheck(c)
        PROVE  policies' = policies /\ (AccessTypeOK /\ ChecksPermitted /\ CacheIsPermitted)'
    <3>1. c.key \in Watched /\ c.action \in {"Read", "Write"}
      BY <1>2 DEF AccessTypeOK
    <3>2. /\ checks' = checks \ {c} /\ UNCHANGED <<policies, changes>>
          /\ action_by_oid' = [action_by_oid EXCEPT ![c.key] = c.action]
      BY <2>2 DEF FinishCheck
    <3>3. AccessTypeOK'
      BY <1>2, <3>1, <3>2 DEF AccessTypeOK, Action
    <3>4. \A u, o, a : enforce_action(u, o, a) => enforce_action(u, o, a)'
      BY <3>2 DEF enforce_action, enforce_policy
    <3>5. enforce_action(c.key[1], c.key[2], c.action)
      BY DEF MembersInv, ChecksPermitted
    <3>6. \A k \in Watched :
            action_by_oid'[k] = IF k = c.key THEN c.action ELSE action_by_oid[k]
      BY <1>2, <3>2 DEF AccessTypeOK
    <3>7. ChecksPermitted'
      BY <3>2, <3>4 DEF MembersInv, ChecksPermitted
    <3>8. ASSUME NEW k \in Watched, action_by_oid'[k] # None
          PROVE  enforce_action(k[1], k[2], action_by_oid'[k])
      <4>1. CASE k = c.key
        BY <3>5, <3>6, <4>1
      <4>2. CASE k # c.key
        <5>1. action_by_oid'[k] = action_by_oid[k]
          BY <3>6, <4>2
        <5>. QED  BY <3>8, <5>1 DEF MembersInv, CacheIsPermitted
      <4>. QED  BY <4>1, <4>2
    <3>9. CacheIsPermitted'
      BY <3>2, <3>8 DEF CacheIsPermitted, enforce_action, enforce_policy
    <3>. QED  BY <3>2, <3>3, <3>7, <3>9
  <2>3. ASSUME Forget
        PROVE  policies' = policies /\ (AccessTypeOK /\ ChecksPermitted /\ CacheIsPermitted)'
    <3>1. /\ changes # <<>> /\ changes' = Tail(changes) /\ UNCHANGED <<policies, checks>>
          /\ action_by_oid' = [action_by_oid EXCEPT ![Head(changes)] = None]
      BY <2>3 DEF Forget
    <3>2. AccessTypeOK'
      BY <1>2, <3>1 DEF AccessTypeOK
    <3>3. \A u, o, a : enforce_action(u, o, a) => enforce_action(u, o, a)'
      BY <3>1 DEF enforce_action, enforce_policy
    <3>4. \A k \in Watched : action_by_oid'[k] # None => action_by_oid'[k] = action_by_oid[k]
      BY <1>2, <3>1 DEF AccessTypeOK
    <3>5. ChecksPermitted' /\ CacheIsPermitted'
      BY <3>1, <3>3, <3>4 DEF MembersInv, ChecksPermitted, CacheIsPermitted
    <3>. QED  BY <3>1, <3>2, <3>5
  <2>. QED  BY <2>1, <2>2, <2>3 DEF AccessNext
<1>4. TypeOK'
  BY <1>1, <1>3 DEF MembersInv, TypeOK
<1>5. Shapes'
  BY <1>1, RequestsKept DEF MembersInv, Shapes
<1>6. RolesAdmitted' /\ LevelsAdmitted'
  BY <1>1, <1>3, StillAdmitted
<1>7. OwnerStays'
  BY <1>1, OwnersKept
<1>. QED  BY <1>3, <1>4, <1>5, <1>6, <1>7 DEF MembersInv

(* Every step preserves the inductive invariant.                            *)
LEMMA NextPreserves ==
  MembersInv /\ [Next]_vars => MembersInv' /\ (Restart \/ policies \subseteq policies')
<1>. SUFFICES ASSUME MembersInv, [Next]_vars PROVE MembersInv' /\ (Restart \/ policies \subseteq policies')
  OBVIOUS
<1>1. CASE UNCHANGED vars
  <2>1. /\ UNCHANGED <<users, owner, role, level, invitations, requests, workspaceNotices,
                        collabNotices, issued, asked, restarts>>
        /\ UNCHANGED accessVars
    BY <1>1 DEF vars, tables, notices, counters
  <2>2. Grows
    BY <2>1, QuietGrows
  <2>3. Shapes' /\ RolesAdmitted' /\ LevelsAdmitted' /\ OwnerStays'
    BY <2>1, <2>2, RequestsKept, StillAdmitted, OwnersKept DEF Grows, MembersInv, Shapes
  <2>. QED  BY <2>1, <2>2, <2>3, Typed, Assembled
<1>2. ASSUME NEW s \in Slots,
             verify_user_handler(s) \/ workspace_scope(s) \/ Finish(s) \/ Abort(s)
      PROVE  MembersInv' /\ policies \subseteq policies'
  BY <1>2, NewWorkspaceStep, MemberStep, CollabMemberStep, UpdateMemberStep, FinishStep,
     AbortStep DEF workspace_scope
<1>3. CASE delete_workspace_handler \/ open_workspace_handler \/ post_workspace_invite_handler
  BY <1>3, DeleteStep, OpenStep, InviteStep
<1>4. CASE ListenWorkspace \/ ListenCollab \/ Restart
  BY <1>4, ListenWorkspaceStep, ListenCollabStep, RestartStep
<1>5. CASE AccessNext /\ UNCHANGED <<tables, requests, notices, counters>>
  BY <1>5, AccessStep
<1>. QED  BY <1>1, <1>2, <1>3, <1>4, <1>5 DEF Next

(* The inductive invariant holds in every reachable state.                  *)
LEMMA AlwaysMembersInv == Spec => []MembersInv
<1>1. MembersInv /\ [Next]_vars => MembersInv'
  BY NextPreserves
<1>. QED  BY InitHolds, <1>1, PTL DEF Spec

-----------------------------------------------------------------------------
(* The variables keep their types: in particular a role is never stored as  *)
(* a level or the other way round.                                          *)
THEOREM MembersTypes == Spec => []TypeOK
<1>1. MembersInv => TypeOK
  BY DEF MembersInv
<1>. QED  BY AlwaysMembersInv, <1>1, PTL

(* A row of the member tables has its policy, or its notice is on the way,  *)
(* for any number of handlers, commits, failures, notices and restarts in   *)
(* any order.                                                               *)
THEOREM NobodyLockedOut == Spec => []MembersAdmitted
<1>1. MembersInv => MembersAdmitted
  BY DEF MembersInv, RolesAdmitted, LevelsAdmitted, MembersAdmitted
<1>. QED  BY AlwaysMembersInv, <1>1, PTL

(* remove_workspace_members and leave_workspace spare the owner of a        *)
(* workspace, whatever happens between their check and their commit.        *)
THEOREM OwnersAreMembers == Spec => []OwnerStays
<1>1. MembersInv => OwnerStays
  BY DEF MembersInv
<1>. QED  BY AlwaysMembersInv, <1>1, PTL

(* An answer in the realtime cache is one the enforcer still gives, even    *)
(* when the check was under way while the policies changed.                 *)
THEOREM CacheAgrees == Spec => []CacheIsPermitted
<1>1. MembersInv => CacheIsPermitted
  BY DEF MembersInv
<1>. QED  BY AlwaysMembersInv, <1>1, PTL

(* While the server runs no policy is ever withdrawn, although the members  *)
(* who are removed, or leave, or lose a level, have remove_policy called    *)
(* for them: policies_for_subject_with_given_object looks for the user in   *)
(* the field of the object.  Only a restart takes the policies away.        *)
THEOREM OnlyRestartRevokes == Spec => [][Restart \/ policies \subseteq policies']_vars
<1>1. MembersInv /\ [Next]_vars => [Restart \/ policies \subseteq policies']_vars
  BY NextPreserves
<1>. QED  BY AlwaysMembersInv, <1>1, PTL DEF Spec
=============================================================================
