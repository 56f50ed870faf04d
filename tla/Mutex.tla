------------------------------- MODULE Mutex -------------------------------
(***************************************************************************)
(* What withStateLock and the refresh lease promise their users: at most   *)
(* one caller is inside, and a caller that is inside leaves, by releasing  *)
(* the lock or by dying.  FileLock implements it; ControlStore relies on   *)
(* it.                                                                     *)
(***************************************************************************)
CONSTANT Caller
VARIABLE inside

Init == inside = {}

Enter(c) == inside = {} /\ inside' = {c}
Leave(c) == c \in inside /\ inside' = inside \ {c}

Next == \E c \in Caller : Enter(c) \/ Leave(c)

Spec == Init /\ [][Next]_inside
=============================================================================
