---------------------------- MODULE LoginLimiter ----------------------------
(***************************************************************************)
(* InMemorySlidingWindowLimiter of riskapp_server/core/rate_limit.py: the  *)
(* sliding window that /login asks before it looks at a password.  A       *)
(* thread reads the clock first and takes the lock afterwards, so the      *)
(* stamps of overlapping requests can be appended out of order.            *)
(*                                                                         *)
(*   hits[k]   stamps of every attempt admitted for key k since the        *)
(*             limiter was empty, in the order they were appended          *)
(*   cut[k]    how many of them were pruned; the program's deque is the    *)
(*             rest of hits[k]                                             *)
(***************************************************************************)
EXTENDS Integers, Sequences

CONSTANTS
  Key,     \* "ip:email" keys
  Limit,   \* attempts admitted ...
  Window   \* ... in this many ticks

ASSUME LoginLimiterAssumption == Limit \in Nat \ {0} /\ Window \in Nat

VARIABLES hits, cut

limiterVars == <<hits, cut>>

LimiterTypeOK ==
  /\ hits \in [Key -> Seq(Nat)]
  /\ cut \in [Key -> Nat]
  /\ \A k \in Key : cut[k] <= Len(hits[k])

Empty ==
  /\ hits = [k \in Key |-> << >>]
  /\ cut = [k \in Key |-> 0]

(* Mutant of Prunes: a hit exactly one window old is dropped. *)
PrunesEarly(k, t, n) ==
  /\ n \in cut[k] .. Len(hits[k])
  /\ \A j \in cut[k] + 1 .. n : hits[k][j] <= t - Window
  /\ n < Len(hits[k]) => hits[k][n + 1] > t - Window

(* Popping the left end while it is older than the cutoff stops after the  *)
(* n-th hit.                                                               *)
Prunes(k, t, n) ==
  /\ n \in cut[k] .. Len(hits[k])
  /\ \A j \in cut[k] + 1 .. n : hits[k][j] < t - Window
  /\ n < Len(hits[k]) => hits[k][n + 1] >= t - Window

(* check(k) by a thread whose time.monotonic() was t. *)
Admit(k, t) ==
  \E n \in 0 .. Len(hits[k]) :
    /\ Prunes(k, t, n)
    /\ Len(hits[k]) - n < Limit
    /\ cut' = [cut EXCEPT ![k] = n]
    /\ hits' = [hits EXCEPT ![k] = Append(hits[k], t)]

TurnAway(k, t) ==
  \E n \in 0 .. Len(hits[k]) :
    /\ Prunes(k, t, n)
    /\ Len(hits[k]) - n >= Limit
    /\ cut' = [cut EXCEPT ![k] = n]
    /\ UNCHANGED hits

(* reset(), and a process that starts again: the hits are in its memory. *)
Clear ==
  /\ hits' = [k \in Key |-> << >>]
  /\ cut' = [k \in Key |-> 0]
=============================================================================
