---------------------------- MODULE ProjectStore ----------------------------
(***************************************************************************)
(* What the server promises about the rows of a project, whoever pushes    *)
(* to it: every row has one linear history.  A commit takes each row it    *)
(* touches from its current version to a higher one, for one change that   *)
(* was never applied before, and a deleted row stays deleted.              *)
(*                                                                         *)
(*   store[e]   version, contents and is_deleted of row e                  *)
(*   log        the changes applied so far (the AuditLog table)            *)
(***************************************************************************)
EXTENDS SyncTypes

VARIABLES store, log

Version == [ver : Nat, val : Nat, del : BOOLEAN]

Init ==
  /\ store = [e \in Entity |-> [ver |-> 0, val |-> 0, del |-> FALSE]]
  /\ log = {}

(* h takes its row one change further. *)
Advances(h) ==
  /\ h.id \notin Ids(log)
  /\ h.before = store[h.ent].ver
  /\ h.after = store'[h.ent].ver
  /\ h.before < h.after

Commit ==
  LET new == log' \ log
  IN /\ log' = log \cup new
     /\ \A h \in new : Advances(h)
     /\ \A h, g \in new : h.id = g.id \/ h.ent = g.ent => h = g
     /\ store' \in [Entity -> Version]
     /\ \A e \in Entity :
          \/ store'[e] = store[e]
          \/ /\ \E h \in new : h.ent = e
             /\ store[e].del => store'[e].del

Spec == Init /\ [][Commit]_<<store, log>>
=============================================================================
