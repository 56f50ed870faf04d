--------------------------- MODULE MCControlStore ---------------------------
(* Instances of ControlStore for TLC.                                      *)
EXTENDS ControlStore, TLC
CONSTANTS panel, mcp, t1, t2, e1, e2, x, y

OnePanel  == (t1 :> panel) @@ (t2 :> panel)

OneTab == t1 :> panel
SymmetricRoutes == Permutations({e1, e2})
Symmetric == Permutations({t1, t2}) \cup SymmetricRoutes
=============================================================================
