------------------------------ MODULE MCDesktop -------------------------------
(***************************************************************************)
(* Instances of Desktop for TLC: two risks, three ids for server projects. *)
(***************************************************************************)
EXTENDS Desktop

CONSTANTS r1, r2, p1, p2, p3

TwoRows  == {r1, r2}
Risks    == [r \in Row |-> "risk"]
ThreeIds == {p1, p2, p3}
NoCodes  == {}
OneCode  == {<<"risk", 1>>}
=============================================================================
