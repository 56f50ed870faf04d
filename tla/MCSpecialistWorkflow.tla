------------------------ MODULE MCSpecialistWorkflow ------------------------
(* Instances of SpecialistWorkflow for TLC.                                *)
EXTENDS SpecialistWorkflow, TLC
CONSTANTS o1, c1, c2, m1, m2

Waiting ==
  [calls |-> 5, turns |-> 0, parallel |-> FALSE, background |-> FALSE, resume |-> FALSE,
   others |-> FALSE, pins |-> FALSE, deletes |-> FALSE]

(* A router that waits: longer in one turn, and in two; parallel calls     *)
(* with a foreign message; tasks in the background while the pin changes;  *)
(* and sessions that are deleted.                                          *)
MCHost ==
  { Waiting,
    [Waiting EXCEPT !.calls = 4, !.turns = 1],
    [Waiting EXCEPT !.calls = 3, !.turns = 1, !.parallel = TRUE, !.others = TRUE],
    [Waiting EXCEPT !.calls = 3, !.turns = 1, !.background = TRUE, !.pins = TRUE],
    [Waiting EXCEPT !.calls = 3, !.pins = TRUE, !.deletes = TRUE] }

Symmetric == Permutations({c1, c2}) \cup Permutations({m1, m2})
=============================================================================
