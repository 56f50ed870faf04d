----------------------------- MODULE ReviewLoop -----------------------------
(***************************************************************************)
(* What the plugin promises about one router turn: a worker's assignment   *)
(* is repaired only after a review of that very assignment, each review    *)
(* allows one repair, and there are at most Limit of them.                 *)
(***************************************************************************)
EXTENDS Naturals
CONSTANTS Limit, None, Assignment
VARIABLES worker,    (* the assignment last completed by a code worker     *)
          reviewed,  (* that assignment, when a review of it has completed *)
          repairs    (* repairs begun                                      *)

vars == <<worker, reviewed, repairs>>

Init == worker = None /\ reviewed = None /\ repairs = 0

NewTurn == worker' = None /\ reviewed' = None /\ repairs' = 0

Work ==
  /\ worker' \in Assignment \ {worker}
  /\ reviewed' = None
  /\ UNCHANGED repairs

Review ==
  /\ worker # None
  /\ reviewed' = worker
  /\ UNCHANGED <<worker, repairs>>

Repair ==
  /\ worker # None /\ reviewed = worker
  /\ repairs < Limit
  /\ repairs' = repairs + 1 /\ reviewed' = None
  /\ UNCHANGED worker

Next == NewTurn \/ Work \/ Review \/ Repair

Spec == Init /\ [][Next]_vars
=============================================================================
