---------------------------- MODULE AccessControl ----------------------------
(***************************************************************************)
(* Who may do what: the policies of the casbin enforcer                    *)
(* (src/biz/casbin/{access_control,enforcer,request}.rs), the rules of the *)
(* two access control middlewares (src/biz/{workspace,collab}/             *)
(* access_control.rs, src/middleware/access_control_mw.rs), and the cache  *)
(* that the realtime server asks before it lets a message pass             *)
(* (src/biz/casbin/collab_ac.rs).                                          *)
(*                                                                         *)
(* A policy says that a user has a role in a workspace or an access level  *)
(* on a collab.  The tables the policies come from are in Members.         *)
(***************************************************************************)
EXTENDS Naturals, Sequences, FiniteSets

CONSTANTS
  Users,       \* the users (uid, email and uuid of a user are one value)
  Workspaces,  \* the ids of the workspaces, which are those of their folders
  Docs,        \* the ids of the documents made from the templates
  WorkspaceOf, \* the workspace of each collab
  Watched,     \* the users and collabs the realtime server is asked about
  MaxChecks,   \* bound on the checks of the realtime server under way
  None         \* no user, role, level or action

Collabs == Workspaces \cup Docs

AFRole == {"Owner", "Member", "Guest"}
AFAccessLevel == {"ReadOnly", "ReadAndComment", "ReadAndWrite", "FullAccess"}
Action == {"Read", "Write", "Delete"}

(* ObjectType: a workspace and its folder have the same id and are two     *)
(* objects.                                                                *)
Workspace(w) == <<"workspace", w>>
Collab(o) == <<"collab", o>>
Object == {Workspace(w) : w \in Workspaces} \cup {Collab(o) : o \in Collabs}

(* A uid is a number and policy_object() starts with the kind of object,   *)
(* so no name is both; the tables have finitely many rows.                 *)
ASSUME AccessAssumption ==
  /\ WorkspaceOf \in [Collabs -> Workspaces]
  /\ \A w \in Workspaces : WorkspaceOf[w] = w
  /\ Watched \subseteq Users \X Collabs
  /\ MaxChecks \in Nat
  /\ None \notin Users \cup Action \cup AFRole \cup AFAccessLevel
  /\ \A u \in Users : u \notin Object
  /\ IsFiniteSet(Users) /\ IsFiniteSet(Collabs)

VARIABLES
  policies,       \* the policies in the enforcer
  changes,        \* AccessControlChange not yet seen by the realtime cache
  action_by_oid,  \* the cache: the action a user is known to be allowed
  checks          \* the checks whose answer is not in the cache yet

accessVars == <<policies, changes, action_by_oid, checks>>

(* AFAccessLevel::from(&AFRole)                                            *)
LevelOf(role) ==
  [Owner |-> "FullAccess", Member |-> "ReadAndWrite", Guest |-> "ReadOnly"][role]

can_write(level) == level \in {"ReadAndWrite", "FullAccess"}
can_delete(level) == level = "FullAccess"

(* Action::from(&Method): PATCH is among the others.                       *)
ActionOf(method) ==
  CASE method \in {"POST", "PUT"} -> "Write" [] method = "DELETE" -> "Delete" [] OTHER -> "Read"

Policy == [uid : Users, obj : Object, act : AFRole \cup AFAccessLevel]
PolicyOf(u, obj, act) == [uid |-> u, obj |-> obj, act |-> act]

-----------------------------------------------------------------------------
(* The enforcer.                                                           *)

(* load_group_policies: what a role or a level allows.                     *)
Grouped(act) ==
  CASE act = "Owner" -> Action
    [] act = "Member" -> {"Write", "Read"}
    [] act = "Guest" -> {"Read"}
    [] OTHER -> {"Read"} \cup (IF can_write(act) THEN {"Write"} ELSE {})
                         \cup (IF can_delete(act) THEN {"Delete"} ELSE {})

(* The matcher of MODEL_CONF; g relates every name to itself as well.      *)
Matches(p, u, obj, act) ==
  p.uid = u /\ p.obj = obj /\ (p.act = act \/ act \in Grouped(p.act))

(* What WorkspacePolicyRequest asks: the workspace in place of a collab.   *)
WorkspaceRequest(w, obj) == IF obj[1] = "workspace" THEN obj ELSE Workspace(w)

(* No enforcer group is in use (NoEnforceGroup).                           *)
enforce_policy(w, u, obj, act) ==
  \E p \in policies : Matches(p, u, WorkspaceRequest(w, obj), act) \/ Matches(p, u, obj, act)

validate_obj_action(obj, act) ==
  \/ obj[1] = "workspace" /\ act \in AFRole
  \/ obj[1] = "collab" /\ act \in AFAccessLevel

(* update_policy adds; the policy the user had on the object stays.        *)
Updated(S, u, obj, act) ==
  IF validate_obj_action(obj, act) THEN S \cup {PolicyOf(u, obj, act)} ELSE S

(* Mutant of PoliciesOf: those of every user are removed.                  *)
PoliciesOfObject(S, u, obj) == {q \in S : q.obj = obj}

(* policies_for_subject_with_given_object: the second filter compares the  *)
(* object of the policy, not its subject, with the user.                   *)
PoliciesOf(S, u, obj) == {p \in {q \in S : q.obj = obj} : p.obj = u}
Removed(S, u, obj) == S \ PoliciesOf(S, u, obj)

(* AccessControlChange, as far as the realtime cache can have the key.     *)
Change(u, obj) == IF <<u, obj[2]>> \in Watched THEN <<<<u, obj[2]>>>> ELSE <<>>

update_policy(u, obj, act) ==
  /\ policies' = Updated(policies, u, obj, act)
  /\ changes' = changes \o Change(u, obj)
  /\ UNCHANGED <<action_by_oid, checks>>

remove_policy(u, obj) ==
  /\ policies' = Removed(policies, u, obj)
  /\ changes' = changes \o Change(u, obj)
  /\ UNCHANGED <<action_by_oid, checks>>

(* A role in the workspace, and the level it gives on the folder.          *)
RolePolicies(S, u, w, role) ==
  Updated(Updated(S, u, Workspace(w), role), u, Collab(w), LevelOf(role))

insert_role(u, w, role) ==
  /\ policies' = RolePolicies(policies, u, w, role)
  /\ changes' = changes \o Change(u, Workspace(w)) \o Change(u, Collab(w))
  /\ UNCHANGED <<action_by_oid, checks>>

remove_role(u, w) ==
  /\ policies' = Removed(Removed(policies, u, Workspace(w)), u, Collab(w))
  /\ changes' = changes \o Change(u, Workspace(w)) \o Change(u, Collab(w))
  /\ UNCHANGED <<action_by_oid, checks>>

-----------------------------------------------------------------------------
(* The middlewares.  A resource is the last part of the route's pattern.   *)

(* WorkspaceAccessControlImpl and CollabAccessControlImpl.                 *)
enforce_role(u, w, role) == enforce_policy(w, u, Workspace(w), role)
enforce_workspace_action(u, w, action) == enforce_policy(w, u, Workspace(w), action)
enforce_action(u, o, action) == enforce_policy(WorkspaceOf[o], u, Collab(o), action)
enforce_access_level(u, o, level) == enforce_policy(WorkspaceOf[o], u, Collab(o), level)
update_access_level_policy(u, o, level) == update_policy(u, Collab(o), level)
remove_access_level(u, o) == remove_policy(u, Collab(o))

require_role(method, resource) ==
  IF \/ resource = "member" /\ method \in {"POST", "DELETE", "PUT", "GET"}
     \/ resource = "invite" /\ method = "POST"
    THEN "Owner" ELSE None

(* WorkspaceMiddlewareAccessControl::check_resource_permission.            *)
WorkspaceCheck(u, w, method, resource) ==
  LET role == require_role(method, resource)
  IN  IF role = None THEN enforce_workspace_action(u, w, ActionOf(method))
                     ELSE enforce_role(u, w, role)

require_access_level(method, resource) ==
  IF resource = "collab" /\ method = "DELETE" THEN "FullAccess" ELSE None

(* CollabMiddlewareAccessControl::check_resource_permission; exist is what *)
(* CollabCache::is_exist answers.                                          *)
CollabCheck(u, o, method, resource, exist) ==
  LET level == require_access_level(method, resource)
  IN  \/ resource = "collab" /\ method = "POST"
      \/ exist /\ IF level = None THEN enforce_action(u, o, ActionOf(method))
                                  ELSE enforce_access_level(u, o, level)

(* AccessControlMiddleware::call, for a route with a workspace id and for  *)
(* one with an object id too.                                              *)
MayUseWorkspace(u, w, method, resource) == WorkspaceCheck(u, w, method, resource)
MayUseCollab(u, o, method, resource, exist) ==
  /\ WorkspaceCheck(u, WorkspaceOf[o], method, resource)
  /\ CollabCheck(u, o, method, resource, exist)

-----------------------------------------------------------------------------
(* The cache of RealtimeCollabAccessControlImpl.                           *)

(* can_perform_action: a key in the cache is answered from it; otherwise   *)
(* the policies are read now and the answer is stored later.  The stream   *)
(* of a client asks for Write and Read, its sink for Read.                 *)
StartCheck(u, o, action) ==
  /\ Cardinality(checks) < MaxChecks
  /\ action_by_oid[<<u, o>>] = None
  /\ enforce_action(u, o, action)
  /\ checks' = checks \cup {[key |-> <<u, o>>, action |-> action]}
  /\ UNCHANGED <<policies, changes, action_by_oid>>

FinishCheck(c) ==
  /\ c \in checks
  /\ checks' = checks \ {c}
  /\ action_by_oid' = [action_by_oid EXCEPT ![c.key] = c.action]
  /\ UNCHANGED <<policies, changes>>

(* The task that forgets what a change of the policies is about.           *)
Forget ==
  /\ changes # <<>>
  /\ changes' = Tail(changes)
  /\ action_by_oid' = [action_by_oid EXCEPT ![Head(changes)] = None]
  /\ UNCHANGED <<policies, checks>>

AccessInit(loaded) ==
  /\ policies = loaded /\ changes = <<>>
  /\ action_by_oid = [k \in Watched |-> None]
  /\ checks = {}

AccessNext ==
  \/ \E k \in Watched, action \in {"Read", "Write"} : StartCheck(k[1], k[2], action)
  \/ \E c \in checks : FinishCheck(c)
  \/ Forget

AccessTypeOK ==
  /\ policies \subseteq Policy
  /\ changes \in Seq(Watched)
  /\ action_by_oid \in [Watched -> Action \cup {None}]
  /\ checks \subseteq [key : Watched, action : {"Read", "Write"}]
=============================================================================
