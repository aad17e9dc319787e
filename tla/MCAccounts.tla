----------------------------- MODULE MCAccounts -----------------------------
(***************************************************************************)
(* An instance of Accounts for TLC: one account, one device of its owner,  *)
(* a server with two worker threads.                                       *)
(***************************************************************************)
EXTENDS Accounts

CONSTANTS u1, d1, s1, s2

OneUser     == {u1}
OneDevice   == {d1}
TwoSessions == {s1, s2}
OwnerOf     == [d \in Device |-> u1]

Good    == [len |-> 8, has |-> {"upper", "digit"}]
Short   == [len |-> 3, has |-> {"upper", "digit"}]
Shapes  == {Good, Short}
Needed  == {"upper", "digit"}
=============================================================================
