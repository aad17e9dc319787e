------------------------------- MODULE Scores -------------------------------
(***************************************************************************)
(* The computations over the rows of a register: scores (core/scoring.py   *)
(* and the listener of db/session.py) and the filters of its lists         *)
(* (core/filters.py).                                                      *)
(*                                                                         *)
(* An item is a record [ver, code, status, prob, impact, dims, score,      *)
(* del]; dims gives each impact dimension a number, 0 for null, and        *)
(* ver = 0 means that there is no row.  R maps item ids to items.          *)
(***************************************************************************)
EXTENDS Integers, FiniteSets, Functions, FiniteSetsExt

Scale == 1 .. 5
Dim == {"cost", "time"}   \* two stand for the four
Status == {"concept", "active", "closed", "deleted", "happened"}

(* Mutant of Rescored: the impact is left to the caller. *)
RescoredByHand(x) == [x EXCEPT !.score = x.prob * x.impact]

(* recalculate_item_scores, and _compute_score before every write. *)
Rescored(x) ==
  LET valid == Range(x.dims) \ {0}
      impact == IF valid = {} THEN x.impact ELSE Max(valid)
  IN [x EXCEPT !.impact = impact, !.score = x.prob * impact]

(* apply_item_filters; wanted is the list of statuses asked for. *)
Passes(x, wanted, lo, hi) ==
  /\ x.ver # 0
  /\ LET other == wanted \ {"deleted"}
     IN IF "deleted" \in wanted
        THEN x.del \/ x.status \in other
        ELSE ~x.del /\ (other # {} => x.status \in other)
  /\ lo <= x.score /\ x.score <= hi

Filtered(R, wanted, lo, hi) == {i \in DOMAIN R : Passes(R[i], wanted, lo, hi)}
=============================================================================
