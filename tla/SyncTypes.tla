------------------------------ MODULE SyncTypes ------------------------------
(***************************************************************************)
(* The vocabulary shared by the offline client (riskapp_client) and the    *)
(* server's sync engine (riskapp_server/sync/engine.py): the accounts, the *)
(* rows of one project and the change records that travel between them.    *)
(*                                                                         *)
(* Rows are either scored items (risks, opportunities), whose Parent is    *)
(* None, or rows attached to an item (actions, assessments).  The fields a *)
(* user types are abstracted to one number, val, that identifies the edit  *)
(* that produced them; the sync metadata (version, is_deleted, updated_at) *)
(* is kept as it is.                                                       *)
(***************************************************************************)
EXTENDS Integers, FiniteSets

CONSTANTS
  Client,   \* accounts; each works on one device with its own SQLite file
  Entity,   \* uuids of the project's rows
  None,     \* "no such thing": no parent, no user
  Parent,   \* the item a row is attached to, None for a scored item
  Role      \* rank of each account in the project (core/permissions.py)

ASSUME SyncTypesAssumption ==
  /\ None \notin Client
  /\ None \notin Entity
  /\ Parent \in [Entity -> Entity \cup {None}]
  /\ Role \in [Client -> 1..4]

-----------------------------------------------------------------------------

(* The ranks of ROLE_RANK that a change can be checked against. *)
Member  == 2
Manager == 3

(* "retire" is an upsert whose record says status=deleted: the server      *)
(* treats it as a soft delete and counts two version steps for it.         *)
Op == {"upsert", "retire", "delete"}

(* A row of the outbox table and of the push request.  base = 0 stands for *)
(* base_version None.                                                      *)
Change == [id : Nat, ent : Entity, op : Op, base : Nat, val : Nat]

Ids(S) == {x.id : x \in S}

(* A row of the server's tables; ver = 0 means that there is none. *)
ServerRow == [ver : Nat, val : Nat, del : BOOLEAN, upd : Nat]
NoRow     == [ver |-> 0, val |-> 0, del |-> FALSE, upd |-> 0]

(* A row of SyncReceipt with the part of its response the client uses. *)
Receipt == [id : Nat, user : Client,
            status : {"accepted", "conflict", "error"}, sv : Nat]

(* A row of AuditLog: which user's change took an entity from one version  *)
(* to another, what it wrote and which version it was based on.            *)
AuditRow == [id : Nat, user : Client, ent : Entity, base : Nat, val : Nat,
             before : Nat, after : Nat]

(* What the push handler answers: the ids it had already seen and the      *)
(* outcome of each change it processed now.                                *)
Reply == [dup : SUBSET Nat, out : SUBSET Receipt]
=============================================================================
