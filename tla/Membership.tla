----------------------------- MODULE Membership -----------------------------
(***************************************************************************)
(* The members of one project and who may do what: api/routers/projects.py *)
(* and core/permissions.py.  A handler first reads (roles, the target, the *)
(* number of admins) and then writes and commits; other handlers may run   *)
(* in between.                                                             *)
(*                                                                         *)
(*   member[u]   rank of u's role in project_members, 0: not a member; as  *)
(*               long as all are 0 the project does not exist              *)
(*   srv[s]      request served by session s, "start" before it has read   *)
(*               and "read" after; seen is what it found                   *)
(*                                                                         *)
(* Two history variables tell the orders in which requests get in each     *)
(* other's way:                                                            *)
(*                                                                         *)
(*   stale       handlers that have read, and another one wrote since    *)
(*   crossed     what was written over something the handler did not know  *)
(*               of: an item, or "members" for the role of an admin        *)
(***************************************************************************)
EXTENDS Integers, FiniteSets

CONSTANTS
  User,
  None,      \* an address nobody has registered
  Session    \* handlers that can be open at once

ASSUME MembershipAssumption == None \notin User

VARIABLES member, srv, stale, crossed

memberVars == <<member, srv, stale, crossed>>

Viewer  == 1
Member  == 2
Manager == 3
Admin   == 4
Free    == [st |-> "free"]

Admins == {u \in User : member[u] = Admin}

Open(s, q) ==
  /\ srv[s] = Free
  /\ srv' = [srv EXCEPT ![s] = [st |-> "start", req |-> q, seen |-> 0]]
  /\ UNCHANGED <<stale, crossed>>

(* A handler ends without having written what others read. *)
Leave(s) ==
  /\ srv' = [srv EXCEPT ![s] = Free]
  /\ stale' = stale \ {s}
  /\ UNCHANGED crossed

(* A handler has written and ends; over is what it may have written over. *)
Close(s, over) ==
  /\ srv' = [srv EXCEPT ![s] = Free]
  /\ stale' = {t \in Session \ {s} : srv[t] # Free /\ srv[t].st = "read"}
  /\ crossed' = crossed \cup over

(* The checks of a handler have passed, or it has raised. *)
Found(s, ok, seen) ==
  IF ok THEN /\ srv' = [srv EXCEPT ![s].st = "read", ![s].seen = seen]
             /\ UNCHANGED <<stale, crossed>>
  ELSE Leave(s)

At(s, op, st) == srv[s] # Free /\ srv[s].st = st /\ srv[s].req.op = op

(* require_min_role *)
Permits(s, rank) == member[srv[s].req.user] >= rank

-----------------------------------------------------------------------------
(* create_project: the project and its first admin in one commit. *)
CreateProject(s) ==
  /\ At(s, "project", "start")
  /\ member' = IF \A u \in User : member[u] = 0
               THEN [member EXCEPT ![srv[s].req.user] = Admin] ELSE member
  /\ Close(s, {})

(* Mutant of KeepsAnother: the last admin may go. *)
KeepsNone(u) == TRUE

(* _ensure_not_last_admin, asked when an admin's role is to be lost. *)
KeepsAnother(u) == member[u] = Admin => Cardinality(Admins) > 1

(* An admin's role is taken by a handler whose check is out of date. *)
Unchecked(s, rank) ==
  IF s \in stale /\ member[srv[s].req.to] = Admin /\ rank # Admin
  THEN {"members"} ELSE {}

(* add_member: an unknown address, a new member or another role. *)
CheckGrant(s) ==
  /\ At(s, "grant", "start")
  /\ LET q == srv[s].req
     IN IF q.to = None THEN Leave(s)
        ELSE Found(s, /\ Permits(s, Admin)
                      /\ q.role # Admin => KeepsAnother(q.to),
                   member[q.to])
  /\ UNCHANGED member

(* The UPDATE of a row that has gone, and the INSERT of one that has come, *)
(* fail the request.                                                       *)
Grant(s) ==
  /\ At(s, "grant", "read")
  /\ LET q == srv[s].req
     IN member' = IF (srv[s].seen = 0) = (member[q.to] = 0)
                  THEN [member EXCEPT ![q.to] = q.role] ELSE member
  /\ Close(s, Unchecked(s, srv[s].req.role))

CheckRemove(s) ==
  /\ At(s, "remove", "start")
  /\ LET q == srv[s].req
     IN IF q.to = None THEN Leave(s)
        ELSE Found(s, Permits(s, Admin) /\ member[q.to] # 0 /\ KeepsAnother(q.to),
                   member[q.to])
  /\ UNCHANGED member

Remove(s) ==
  /\ At(s, "remove", "read")
  /\ member' = [member EXCEPT ![srv[s].req.to] = 0]
  /\ Close(s, Unchecked(s, 0))

MemberStep(s) ==
  CreateProject(s) \/ CheckGrant(s) \/ Grant(s) \/ CheckRemove(s) \/ Remove(s)

(* The last admin can neither be removed nor downgraded: whatever handlers *)
(* overlap, a project never loses its only admin, unless an admin has lost *)
(* the role to a handler that had counted the admins before another one    *)
(* wrote (_ensure_not_last_admin locks nothing).                           *)
KeepsAdmin ==
  ("members" \notin crossed /\ \E u \in User : member[u] # 0) => Admins # {}
=============================================================================
