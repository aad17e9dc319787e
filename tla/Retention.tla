----------------------------- MODULE Retention ------------------------------
(***************************************************************************)
(* The receipts of pushed changes and their removal by age, the request    *)
(* that ops/prune_job.py sends: prune_project_logs of projects.py.  Time   *)
(* is counted in days.                                                     *)
(*                                                                         *)
(*   receipt[c]  the day on which change c was processed, {} if no receipt *)
(*   applied[c]  the days on which c was applied, one after the other      *)
(*   now         today                                                     *)
(***************************************************************************)
EXTENDS Integers, Sequences

CONSTANTS
  Change,         \* change ids
  RetentionDays   \* RETENTION_DAYS, used when a request names no number

ASSUME RetentionAssumption == RetentionDays \in Nat \ {0}

VARIABLES receipt, applied, now

logVars == <<receipt, applied, now>>

LogsTypeOK ==
  /\ receipt \in [Change -> SUBSET Nat]
  /\ applied \in [Change -> Seq(Nat)]
  /\ now \in Nat

LogsInit ==
  /\ receipt = [c \in Change |-> {}]
  /\ applied = [c \in Change |-> << >>]
  /\ now = 0

(* push_changes: a change without a receipt is applied and gets one. *)
Push(c) ==
  /\ receipt[c] = {}
  /\ receipt' = [receipt EXCEPT ![c] = {now}]
  /\ applied' = [applied EXCEPT ![c] = Append(@, now)]
  /\ UNCHANGED now

(* Mutant of Days: the lower limit is left out. *)
DaysAsAsked(days) == IF days = 0 THEN RetentionDays ELSE days

(* days or RETENTION_DAYS, kept between 1 and 3650. *)
Days(days) ==
  LET d == IF days = 0 THEN RetentionDays ELSE days
  IN IF d < 1 THEN 1 ELSE IF d > 3650 THEN 3650 ELSE d

Prune(days) ==
  /\ receipt' = [c \in Change |-> {t \in receipt[c] : t >= now - Days(days)}]
  /\ UNCHANGED <<applied, now>>

Tomorrow == now' = now + 1 /\ UNCHANGED <<receipt, applied>>

(* Whatever number of days a request asks for, pruning never makes a       *)
(* change that is sent again within a day of its processing count twice.   *)
RetryCounted ==
  \A c \in Change : \A i, j \in DOMAIN applied[c] :
    i < j => applied[c][j] - applied[c][i] > 1
=============================================================================
