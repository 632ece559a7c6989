------------------------------- MODULE Members -------------------------------
(***************************************************************************)
(* The members of workspaces and collabs: the handlers that change them    *)
(* (src/api/{workspace,user}.rs, src/biz/{workspace,collab}/ops.rs,        *)
(* src/biz/user.rs), the tables they write (lib/database), and the ways in *)
(* which a row becomes a policy: the handler itself, the listeners of the  *)
(* database's notifications (src/biz/casbin/pg_listen.rs), and the loading *)
(* of all rows at the start of the server (src/biz/casbin/adapter.rs).     *)
(*                                                                         *)
(* Most handlers change the policies before they commit, so a request has  *)
(* two steps: one up to the commit, and the commit or its failure.  Those  *)
(* that wait for their second step hold a slot.  A request names one       *)
(* member; a list is handled one by one in the same transaction.           *)
(***************************************************************************)
EXTENDS AccessControl

CONSTANTS
  Founder,      \* the owner of each workspace there is at the start, or None
  Invited,      \* the invitations there are at the start
  Slots,        \* requests that are handled at the same time
  Levels,       \* the access levels that are asked for
  MaxRequests,  \* bound on the requests, sign-ups apart
  MaxRestarts   \* bound on the restarts of the server

Invitation == [w : Workspaces, u : Users, role : AFRole, accepted : BOOLEAN]

ASSUME MembersAssumption ==
  /\ Founder \in [Workspaces -> Users \cup {None}]
  /\ \A i \in Invited : i \in Invitation /\ ~i.accepted /\ Founder[i.w] # None
  /\ Levels \subseteq AFAccessLevel
  /\ MaxRequests \in Nat /\ MaxRestarts \in Nat

VARIABLES
  users,            \* af_user
  owner,            \* af_workspace: its owner_uid, None for no such row
  role,             \* af_workspace_member
  level,            \* af_collab_member
  invitations,      \* af_workspace_invitation
  requests,         \* what each slot has yet to do
  workspaceNotices, \* af_workspace_member_channel
  collabNotices,    \* af_collab_member_channel
  issued,           \* the workspace ids in use
  asked,            \* the number of requests so far
  restarts          \* the number of restarts so far

tables == <<users, owner, role, level, invitations>>
notices == <<workspaceNotices, collabNotices>>
counters == <<issued, asked, restarts>>
vars == <<accessVars, tables, requests, notices, counters>>

Notice == [u : Users, oid : Collabs, act : AFRole \cup AFAccessLevel \cup {None}]
Request ==
  [op : {"signUp", "create", "addMember", "accept", "removeMember", "updateMember",
         "setLevel", "dropLevel"},
   u : Users, oid : Collabs, act : AFRole \cup AFAccessLevel \cup {None}]

-----------------------------------------------------------------------------
(* The tables.  The triggers of the database are external: they make the   *)
(* owner, and who accepts an invitation, a member, and announce the        *)
(* changes of the two member tables.                                       *)
Notify(u, oid, act) == [u |-> u, oid |-> oid, act |-> act]

(* The elements of a set in some order.                                    *)
Listed(S) == CHOOSE f \in [1 .. Cardinality(S) -> S] : \A x \in S : \E i \in DOMAIN f : f[i] = x
Each(S, N(_)) == [i \in 1 .. Cardinality(S) |-> N(Listed(S)[i])]

(* A collab goes with its workspace.                                       *)
is_collab_exists(o) == owner[WorkspaceOf[o]] # None
is_collab_member_exists(u, o) == level[o][u] # None

(* ON CONFLICT DO NOTHING                                                  *)
upsert_workspace_member_with_txn(w, u, r) ==
  /\ role' = IF role[w][u] = None THEN [role EXCEPT ![w][u] = r] ELSE role
  /\ workspaceNotices' = IF role[w][u] = None
       THEN Append(workspaceNotices, Notify(u, w, r)) ELSE workspaceNotices

(* An UPDATE of the row, if there is one.                                  *)
upsert_workspace_member(w, u, r) ==
  /\ role' = IF role[w][u] = None THEN role ELSE [role EXCEPT ![w][u] = r]
  /\ workspaceNotices' = IF role[w][u] = None
       THEN workspaceNotices ELSE Append(workspaceNotices, Notify(u, w, r))

(* Opening a workspace touches the row, which announces it again.          *)
update_updated_at_of_workspace(w, u) == upsert_workspace_member(w, u, role[w][u])

(* Mutant of is_owner: the role is asked, not owner_uid.                   *)
HasOwnerRole(w, u) == role[w][u] = "Owner"

is_owner(w, u) == owner[w] = u
delete_workspace_members(w, u) ==
  /\ role' = IF is_owner(w, u) THEN role ELSE [role EXCEPT ![w][u] = None]
  /\ workspaceNotices' = IF is_owner(w, u) \/ role[w][u] = None
       THEN workspaceNotices ELSE Append(workspaceNotices, Notify(u, w, None))

upsert_collab_member_with_txn(o, u, l) ==
  /\ level' = [level EXCEPT ![o][u] = l]
  /\ collabNotices' = Append(collabNotices, Notify(u, o, l))

DeleteCollabMember(o, u) ==
  /\ level' = [level EXCEPT ![o][u] = None]
  /\ collabNotices' = IF level[o][u] = None THEN collabNotices
                                            ELSE Append(collabNotices, Notify(u, o, None))

(* The collabs made from the templates: the folder and the documents.      *)
Templates(w) == {o \in Collabs : WorkspaceOf[o] = w}
insert_user_workspace(u, w) ==
  /\ owner' = [owner EXCEPT ![w] = u]
  /\ upsert_workspace_member_with_txn(w, u, "Owner")
create_user(u, w) == users' = users \cup {u} /\ insert_user_workspace(u, w)

(* The row and, by the cascade, the rows that depend on it.                *)
delete_from_workspace(w) ==
  /\ owner' = [owner EXCEPT ![w] = None]
  /\ role' = [role EXCEPT ![w] = [u \in Users |-> None]]
  /\ invitations' = {i \in invitations : i.w # w}
  /\ workspaceNotices' = workspaceNotices \o
       Each({u \in Users : role[w][u] # None}, LAMBDA u : Notify(u, w, None))

insert_workspace_invitation(w, u, r) ==
  invitations' = invitations \cup {[w |-> w, u |-> u, role |-> r, accepted |-> FALSE]}

(* The status is set whatever it was; the trigger acts on a change.        *)
update_workspace_invitation_set_status_accepted(i) ==
  /\ invitations' = (invitations \ {i}) \cup {[i EXCEPT !.accepted = TRUE]}
  /\ IF i.accepted THEN UNCHANGED <<role, workspaceNotices>>
                   ELSE upsert_workspace_member_with_txn(i.w, i.u, i.role)

-----------------------------------------------------------------------------
(* The operations, up to the commit.                                       *)
Hold(s, op, u, oid, act) ==
  /\ requests[s] = None
  /\ requests' = [requests EXCEPT ![s] = [op |-> op, u |-> u, oid |-> oid, act |-> act]]

Ask == asked < MaxRequests /\ asked' = asked + 1

Pending(op, u) == \E s \in Slots : requests[s] # None /\ requests[s].op = op /\ requests[s].u = u

(* Each template is stored as a collab the user has full access to.        *)
initialize_workspace_for_user(u, w) ==
  /\ policies' = RolePolicies(policies, u, w, "Owner")
       \cup {PolicyOf(u, Collab(o), "FullAccess") : o \in Templates(w)}
  /\ changes' = changes \o Change(u, Workspace(w)) \o Change(u, Collab(w))
       \o Listed(Watched \cap ({u} \X Templates(w)))
  /\ UNCHANGED <<action_by_oid, checks>>

NewWorkspace(s, op, u, w) ==
  /\ w \notin issued
  /\ issued' = issued \cup {w}
  /\ Hold(s, op, u, w, None)
  /\ initialize_workspace_for_user(u, w)

(* For a new user; the advisory lock admits one at a time.                 *)
verify_token(s, u, w) ==
  /\ u \notin users /\ ~Pending("signUp", u)
  /\ NewWorkspace(s, "signUp", u, w)
  /\ UNCHANGED <<tables, notices, asked, restarts>>

create_workspace_for_user(s, u, w) ==
  /\ NewWorkspace(s, "create", u, w)
  /\ UNCHANGED <<tables, notices, restarts>>

(* The files of the workspace are in FileStorage; the policies stay.       *)
delete_workspace_for_user(w) ==
  /\ delete_from_workspace(w)
  /\ UNCHANGED <<accessVars, users, level, requests, collabNotices, issued, restarts>>

open_workspace(u, w) ==
  /\ update_updated_at_of_workspace(w, u)
  /\ UNCHANGED <<accessVars, users, owner, level, invitations, requests, collabNotices,
                 issued, restarts>>

invite_workspace_members(w, u, r) ==
  /\ insert_workspace_invitation(w, u, r)
  /\ UNCHANGED <<accessVars, users, owner, role, level, requests, notices, issued, restarts>>

(* The invitation may have been accepted before.                           *)
accept_workspace_invite(s, i) ==
  /\ Hold(s, "accept", i.u, i.w, i.role)
  /\ insert_role(i.u, i.w, i.role)
  /\ UNCHANGED <<tables, notices, issued, restarts>>

add_workspace_members(s, w, u, r) ==
  /\ Hold(s, "addMember", u, w, r)
  /\ insert_role(u, w, r)
  /\ UNCHANGED <<tables, notices, issued, restarts>>

remove_workspace_members(s, w, u) ==
  /\ ~is_owner(w, u)
  /\ Hold(s, "removeMember", u, w, None)
  /\ remove_role(u, w)
  /\ UNCHANGED <<tables, notices, issued, restarts>>

leave_workspace(s, w, u) == remove_workspace_members(s, w, u)

(* The row is changed without a transaction; the policy comes after it.    *)
update_workspace_member(s, w, u, r) ==
  /\ Hold(s, "updateMember", u, w, r)
  /\ upsert_workspace_member(w, u, r)
  /\ UNCHANGED <<accessVars, users, owner, level, invitations, collabNotices, issued, restarts>>

SetCollabMember(s, u, o, l) ==
  /\ is_collab_exists(o)
  /\ Hold(s, "setLevel", u, o, l)
  /\ update_access_level_policy(u, o, l)
  /\ UNCHANGED <<tables, notices, issued, restarts>>

create_collab_member(s, u, o, l) == ~is_collab_member_exists(u, o) /\ SetCollabMember(s, u, o, l)
upsert_collab_member(s, u, o, l) == SetCollabMember(s, u, o, l)

delete_collab_member(s, u, o) ==
  /\ Hold(s, "dropLevel", u, o, None)
  /\ remove_access_level(u, o)
  /\ UNCHANGED <<tables, notices, issued, restarts>>

-----------------------------------------------------------------------------
(* The second step of a request.                                           *)
Release(s) == requests' = [requests EXCEPT ![s] = None]

CommitWorkspace(s, u, w) ==
  /\ \/ requests[s].op = "signUp" /\ create_user(u, w)
     \/ requests[s].op = "create" /\ insert_user_workspace(u, w) /\ UNCHANGED users
  /\ level' = [o \in Collabs |->
       IF o \in Templates(w) THEN [level[o] EXCEPT ![u] = "FullAccess"] ELSE level[o]]
  /\ collabNotices' = collabNotices \o
       Each(Templates(w), LAMBDA o : Notify(u, o, "FullAccess"))
  /\ UNCHANGED <<accessVars, invitations>>

(* Foreign keys: nothing is inserted for a workspace that is gone.         *)
CommitMember(s, u, w, r) ==
  /\ requests[s].op = "addMember" /\ owner[w] # None
  /\ upsert_workspace_member_with_txn(w, u, r)
  /\ upsert_collab_member_with_txn(w, u, LevelOf(r))
  /\ UNCHANGED <<accessVars, users, owner, invitations>>

CommitAccept(s, u, w, r) ==
  /\ requests[s].op = "accept"
  /\ \E i \in invitations :
       /\ i.w = w /\ i.u = u /\ i.role = r
       /\ update_workspace_invitation_set_status_accepted(i)
  /\ UNCHANGED <<accessVars, users, owner, level, collabNotices>>

CommitRemove(s, u, w) ==
  /\ requests[s].op = "removeMember"
  /\ delete_workspace_members(w, u)
  /\ UNCHANGED <<accessVars, users, owner, level, invitations, collabNotices>>

FinishUpdate(s, u, w, r) ==
  /\ requests[s].op = "updateMember"
  /\ insert_role(u, w, r)
  /\ UNCHANGED <<tables, notices>>

CommitLevel(s, u, o, l) ==
  /\ \/ requests[s].op = "setLevel" /\ upsert_collab_member_with_txn(o, u, l)
     \/ requests[s].op = "dropLevel" /\ DeleteCollabMember(o, u)
  /\ UNCHANGED <<accessVars, users, owner, role, invitations, workspaceNotices>>

Finish(s) ==
  /\ requests[s] # None
  /\ LET q == requests[s] IN
       \/ CommitWorkspace(s, q.u, q.oid)
       \/ CommitMember(s, q.u, q.oid, q.act)
       \/ CommitAccept(s, q.u, q.oid, q.act)
       \/ CommitRemove(s, q.u, q.oid)
       \/ FinishUpdate(s, q.u, q.oid, q.act)
       \/ CommitLevel(s, q.u, q.oid, q.act)
  /\ Release(s)
  /\ UNCHANGED counters

(* The transaction fails, or the client goes away and the handler is       *)
(* dropped: what it did to the policies stays.                             *)
Abort(s) ==
  /\ requests[s] # None
  /\ Release(s)
  /\ UNCHANGED <<accessVars, tables, notices, counters>>

-----------------------------------------------------------------------------
(* Mutant of ListenWorkspace: only removals are heeded.                    *)
ListenWorkspaceForRemovals ==
  /\ workspaceNotices # <<>>
  /\ workspaceNotices' = Tail(workspaceNotices)
  /\ LET n == Head(workspaceNotices) IN
       IF n.act = None THEN remove_policy(n.u, Workspace(n.oid)) ELSE UNCHANGED accessVars
  /\ UNCHANGED <<tables, requests, collabNotices, counters>>

(* The listeners.                                                          *)
ListenWorkspace ==
  /\ workspaceNotices # <<>>
  /\ workspaceNotices' = Tail(workspaceNotices)
  /\ LET n == Head(workspaceNotices) IN
       IF n.act = None THEN remove_policy(n.u, Workspace(n.oid))
                       ELSE update_policy(n.u, Workspace(n.oid), n.act)
  /\ UNCHANGED <<tables, requests, collabNotices, counters>>

ListenCollab ==
  /\ collabNotices # <<>>
  /\ collabNotices' = Tail(collabNotices)
  /\ LET n == Head(collabNotices) IN
       IF n.act = None THEN remove_policy(n.u, Collab(n.oid))
                       ELSE update_policy(n.u, Collab(n.oid), n.act)
  /\ UNCHANGED <<tables, requests, workspaceNotices, counters>>

select_workspace_member_perm_stream == {x \in Users \X Workspaces : role[x[2]][x[1]] # None}
select_collab_member_access_level == {x \in Users \X Collabs : level[x[2]][x[1]] # None}

(* load_workspace_policies and load_collab_policies.                       *)
WorkspacePolicies ==
  {PolicyOf(x[1], Workspace(x[2]), role[x[2]][x[1]]) : x \in select_workspace_member_perm_stream}
CollabPolicies ==
  {PolicyOf(x[1], Collab(x[2]), level[x[2]][x[1]]) : x \in select_collab_member_access_level}

(* The server stops and starts: the database rolls back what was not       *)
(* committed, and the policies are loaded (PgAdapter::load_policy).        *)
Restart ==
  /\ restarts < MaxRestarts
  /\ restarts' = restarts + 1
  /\ policies' = WorkspacePolicies \cup CollabPolicies
  /\ changes' = <<>> /\ checks' = {}
  /\ action_by_oid' = [k \in Watched |-> None]
  /\ requests' = [s \in Slots |-> None]
  /\ workspaceNotices' = <<>> /\ collabNotices' = <<>>
  /\ UNCHANGED <<tables, issued, asked>>

(* The server starts with the tables that sign-ups and invitations left.   *)
Init ==
  /\ users = {Founder[w] : w \in Workspaces} \ {None}
  /\ owner = Founder
  /\ role = [w \in Workspaces |-> [u \in Users |-> IF u = Founder[w] THEN "Owner" ELSE None]]
  /\ level = [o \in Collabs |->
       [u \in Users |-> IF u = Founder[WorkspaceOf[o]] THEN "FullAccess" ELSE None]]
  /\ invitations = Invited
  /\ AccessInit(WorkspacePolicies \cup CollabPolicies)
  /\ requests = [s \in Slots |-> None]
  /\ workspaceNotices = <<>> /\ collabNotices = <<>>
  /\ issued = {w \in Workspaces : Founder[w] # None}
  /\ asked = 0 /\ restarts = 0

(* The routes: the middleware's check and the operation.                   *)
verify_user_handler(s) == \E u \in Users, w \in Workspaces : verify_token(s, u, w)

create_workspace_handler(s) ==
  Ask /\ \E u \in users, w \in Workspaces : create_workspace_for_user(s, u, w)

There == {w \in Workspaces : owner[w] # None}

delete_workspace_handler ==
  /\ Ask
  /\ \E w \in There, by \in users :
       MayUseWorkspace(by, w, "DELETE", "workspace") /\ delete_workspace_for_user(w)

open_workspace_handler ==
  /\ Ask
  /\ \E w \in There, u \in users : MayUseWorkspace(u, w, "PUT", "open") /\ open_workspace(u, w)

post_workspace_invite_handler ==
  /\ Ask
  /\ \E w \in There, by \in users, u \in Users, r \in AFRole :
       MayUseWorkspace(by, w, "POST", "invite") /\ invite_workspace_members(w, u, r)

(* No workspace id in the path: no check.                                  *)
post_accept_workspace_invite_handler(s) ==
  Ask /\ \E i \in invitations : i.u \in users /\ accept_workspace_invite(s, i)

create_workspace_members_handler(s) ==
  /\ Ask
  /\ \E w \in There, by \in users, u \in users, r \in AFRole :
       MayUseWorkspace(by, w, "POST", "member") /\ add_workspace_members(s, w, u, r)

remove_workspace_member_handler(s) ==
  /\ Ask
  /\ \E w \in There, by \in users, u \in users :
       MayUseWorkspace(by, w, "DELETE", "member") /\ remove_workspace_members(s, w, u)

leave_workspace_handler(s) ==
  /\ Ask
  /\ \E w \in There, u \in users :
       MayUseWorkspace(u, w, "POST", "leave") /\ leave_workspace(s, w, u)

update_workspace_member_handler(s) ==
  /\ Ask
  /\ \E w \in There, by \in users, u \in users, r \in AFRole :
       MayUseWorkspace(by, w, "PUT", "member") /\ update_workspace_member(s, w, u, r)

MayUseMembers(by, o, method) ==
  MayUseCollab(by, o, method, "collab/member", is_collab_exists(o))

add_collab_member_handler(s) ==
  /\ Ask
  /\ \E o \in Collabs, by \in users, u \in users, l \in Levels :
       MayUseMembers(by, o, "POST") /\ create_collab_member(s, u, o, l)

update_collab_member_handler(s) ==
  /\ Ask
  /\ \E o \in Collabs, by \in users, u \in users, l \in Levels :
       MayUseMembers(by, o, "PUT") /\ upsert_collab_member(s, u, o, l)

remove_collab_member_handler(s) ==
  /\ Ask
  /\ \E o \in Collabs, by \in users, u \in users :
       MayUseMembers(by, o, "DELETE") /\ delete_collab_member(s, u, o)

workspace_scope(s) ==
  \/ create_workspace_handler(s) \/ post_accept_workspace_invite_handler(s)
  \/ leave_workspace_handler(s)
  \/ create_workspace_members_handler(s) \/ update_workspace_member_handler(s)
  \/ remove_workspace_member_handler(s)
  \/ add_collab_member_handler(s) \/ update_collab_member_handler(s)
  \/ remove_collab_member_handler(s)

Next ==
  \/ \E s \in Slots : verify_user_handler(s) \/ workspace_scope(s) \/ Finish(s) \/ Abort(s)
  \/ delete_workspace_handler \/ open_workspace_handler \/ post_workspace_invite_handler
  \/ ListenWorkspace \/ ListenCollab \/ Restart
  \/ AccessNext /\ UNCHANGED <<tables, requests, notices, counters>>

Spec == Init /\ [][Next]_vars

(* The listeners and the cache's task run until the server stops, and a    *)
(* handler ends.                                                           *)
FairSpec ==
  /\ Spec
  /\ WF_vars(ListenWorkspace) /\ WF_vars(ListenCollab)
  /\ WF_vars(Forget /\ UNCHANGED <<tables, requests, notices, counters>>)
  /\ \A s \in Slots : WF_vars(Finish(s) \/ Abort(s))

-----------------------------------------------------------------------------
(* The values the variables take.                                          *)
TypeOK ==
  /\ AccessTypeOK
  /\ users \subseteq Users
  /\ owner \in [Workspaces -> Users \cup {None}]
  /\ role \in [Workspaces -> [Users -> AFRole \cup {None}]]
  /\ level \in [Collabs -> [Users -> AFAccessLevel \cup {None}]]
  /\ invitations \subseteq Invitation
  /\ requests \in [Slots -> Request \cup {None}]
  /\ workspaceNotices \in Seq(Notice) /\ collabNotices \in Seq(Notice)
  /\ issued \subseteq Workspaces
  /\ asked \in 0 .. MaxRequests /\ restarts \in 0 .. MaxRestarts

(* Who is a member according to the tables is admitted by the enforcer, or *)
(* a notification that will bring the policy is on its way to the          *)
(* listeners: no order of commits, notifications, removals and restarts    *)
(* locks a member out (the handlers change the policies before they        *)
(* commit, and update_workspace_member after it).                          *)
Announced(queue, u, oid, act) ==
  \E i \in DOMAIN queue : queue[i].u = u /\ queue[i].oid = oid /\ queue[i].act = act
MembersAdmitted ==
  /\ \A w \in Workspaces, u \in Users : role[w][u] # None =>
       \/ PolicyOf(u, Workspace(w), role[w][u]) \in policies
       \/ Announced(workspaceNotices, u, w, role[w][u])
  /\ \A o \in Collabs, u \in Users : level[o][u] # None =>
       \/ PolicyOf(u, Collab(o), level[o][u]) \in policies
       \/ Announced(collabNotices, u, o, level[o][u])

(* The owner of a workspace stays a member of it, whatever the others (and *)
(* an owner who was given another role) ask for in remove_workspace_members*)
(* and leave_workspace.                                                    *)
OwnerStays == \A w \in Workspaces : owner[w] # None => role[w][owner[w]] # None

(* What the realtime cache grants the policies grant, although a check     *)
(* that read the policies before they changed may store its answer after   *)
(* the change was forgotten (can_perform_action awaits in between).        *)
CacheIsPermitted ==
  \A k \in Watched : action_by_oid[k] # None => enforce_action(k[1], k[2], action_by_oid[k])

(* Once the requests are over, every row of the member tables has its      *)
(* policy for good: the listeners and the handlers see to it.              *)
AllAdmitted ==
  /\ \A w \in Workspaces, u \in Users :
       role[w][u] # None => PolicyOf(u, Workspace(w), role[w][u]) \in policies
  /\ \A o \in Collabs, u \in Users :
       level[o][u] # None => PolicyOf(u, Collab(o), level[o][u]) \in policies
EventuallyAdmitted == <>[]AllAdmitted
=============================================================================
