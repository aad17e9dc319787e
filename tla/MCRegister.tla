----------------------------- MODULE MCRegister -----------------------------
(***************************************************************************)
(* An instance of Register for TLC: two accounts, a risk and an            *)
(* opportunity, one action, a server with two worker threads.              *)
(***************************************************************************)
EXTENDS Register

CONSTANTS u1, u2, r1, o1, a1, s1, s2, c1

TwoUsers    == {u1, u2}
TwoItems    == {r1, o1}
TypeOf      == [i \in Item |-> IF i = r1 THEN "risk" ELSE "opportunity"]
OneAction   == {a1}
TwoSessions == {s1, s2}
OneChange   == {c1}
Days0       == {0, -1}
TwoRoles    == {Member, Admin}

Nothing == [d \in {} |-> 0]
Cost(n) == [d \in {"cost"} |-> n]

Draft(st, c, p, n, D) ==
  [status |-> st, code |-> c, prob |-> p, impact |-> n, dims |-> D]

SomeDrafts == {Draft(None, None, 2, 2, Nothing),
               Draft("active", "x", 2, 1, Cost(3)),
               Draft("deleted", None, 1, 1, Nothing)}

SomePatches == {Draft("deleted", None, 0, 0, Nothing),
                Draft("active", None, 0, 4, Nothing),
                Draft(None, None, 0, 0, Cost(0)),
                Draft(None, "x", 3, 0, Cost(2))}
=============================================================================
