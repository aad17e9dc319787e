----------------------------- MODULE MCRiskSync -----------------------------
(***************************************************************************)
(* Instances of RiskSync for TLC.  r is an item, a an action attached to   *)
(* it.  With Roles c1 is a manager and c2 a member, so that c2's deletions *)
(* are refused; with Members both are members, and interchangeable.        *)
(***************************************************************************)
EXTENDS RiskSync, TLC

CONSTANTS c1, c2, r, a, s1, s2

TwoClients == {c1, c2}
Roles   == [c \in Client |-> IF c = c1 THEN 3 ELSE 2]
Members == [c \in Client |-> 2]

OneItem      == {r}
ItemAndChild == {r, a}
Attached     == [e \in Entity |-> IF e = a THEN r ELSE None]

OneSession  == {s1}
TwoSessions == {s1, s2}
Alike       == Permutations(Session) \cup Permutations(Client)
=============================================================================
